---- MODULE Spec2Model ----
(***************************************************************************)
(* Signal-scoring and risk-management engine of trading-assistant-mcp.     *)
(*                                                                         *)
(* Python floats are modelled as exact rationals <<n, d>> in lowest terms  *)
(* with d > 0; a division whose divisor is zero raises ZeroDivisionError,  *)
(* as it does for Python floats.  The absent value None is the empty       *)
(* tuple.                                                                  *)
(***************************************************************************)
EXTENDS Integers, Sequences, FiniteSets

VARIABLES config, call, gs, bt, tg

vars == <<config, call, gs, bt, tg>>

(***************************************************************************)
(* Exact rational arithmetic.                                              *)
(***************************************************************************)
IAbs(x) == IF x < 0 THEN -x ELSE x

RECURSIVE Gcd(_, _)
Gcd(a, b) == IF b = 0 THEN a ELSE Gcd(b, a % b)

Norm(n, d) ==
    LET g == Gcd(IAbs(n), IAbs(d))
        s == IF d < 0 THEN -1 ELSE 1
    IN  <<(s * n) \div g, (s * d) \div g>>

Q(n, d) == Norm(n, d)
Zero == <<0, 1>>
One == <<1, 1>>
None == <<>>

RNeg(a) == <<-a[1], a[2]>>
RAdd(a, b) ==
    LET l == (a[2] \div Gcd(a[2], b[2])) * b[2]
    IN  Norm(a[1] * (l \div a[2]) + b[1] * (l \div b[2]), l)
RSub(a, b) == RAdd(a, RNeg(b))
RMul(a, b) ==
    LET g1 == Gcd(IAbs(a[1]), b[2])
        g2 == Gcd(IAbs(b[1]), a[2])
    IN  Norm((a[1] \div g1) * (b[1] \div g2), (a[2] \div g2) * (b[2] \div g1))
RInv(a) == IF a[1] < 0 THEN <<-a[2], -a[1]>> ELSE <<a[2], a[1]>>
RDiv(a, b) == RMul(a, RInv(b))
RAbs(a) == <<IAbs(a[1]), a[2]>>
RLt(a, b) == a[1] * b[2] < b[1] * a[2]
RLe(a, b) == a[1] * b[2] <= b[1] * a[2]
RMax(a, b) == IF RLt(a, b) THEN b ELSE a
RMin(a, b) == IF RLt(b, a) THEN b ELSE a

\* the one element of a singleton set: {F(x) : x \in {e}} evaluates e once
The(S) == CHOOSE v \in S : TRUE

Raise(e) == [status |-> e]
Ok(r) == r.status = "ok"

(***************************************************************************)
(* Sequence helpers (numpy reductions and Python slices).                  *)
(***************************************************************************)
RECURSIVE RSumTo(_, _)
RSumTo(s, n) == IF n = 0 THEN Zero ELSE The({RAdd(p, s[n]) : p \in {RSumTo(s, n - 1)}})

RSum(s) == RSumTo(s, Len(s))

\* np.mean over a non-empty sequence
Mean(s) == RDiv(RSum(s), Q(Len(s), 1))

\* population variance, the square of np.std
Variance(s) ==
    LET m == Mean(s)
    IN  Mean([i \in 1..Len(s) |-> RMul(RSub(s[i], m), RSub(s[i], m))])

\* the slice s[-n:]
LastN(s, n) == IF Len(s) <= n THEN s ELSE SubSeq(s, Len(s) - n + 1, Len(s))

Last(s) == s[Len(s)]

(***************************************************************************)
(* RiskManager                                                             *)
(***************************************************************************)
DefaultRiskPerTrade == Q(2, 100)
DefaultMaxPortfolioRisk == Q(6, 100)
DefaultMaxCorrelation == Q(7, 10)

\* RiskManager.__init__: settings.get(key, default)
RiskManagerInit(settings) ==
    [risk_per_trade |->
        IF "risk_per_trade" \in DOMAIN settings
        THEN settings.risk_per_trade ELSE DefaultRiskPerTrade,
     max_portfolio_risk |->
        IF "max_portfolio_risk" \in DOMAIN settings
        THEN settings.max_portfolio_risk ELSE DefaultMaxPortfolioRisk,
     max_correlation |->
        IF "max_correlation" \in DOMAIN settings
        THEN settings.max_correlation ELSE DefaultMaxCorrelation]

\* RiskManager.calculate_position_size
calculate_position_size(cfg, account_balance, entry_price, stop_loss_price) ==
    LET max_risk_amount == RMul(account_balance, cfg.risk_per_trade)
        price_risk == RAbs(RSub(entry_price, stop_loss_price))
    IN  IF price_risk = Zero THEN Raise("ZeroDivisionError")
        ELSE LET position_size == RDiv(max_risk_amount, price_risk)
             IN  [status |-> "ok",
                  position_size |-> position_size,
                  position_value |-> RMul(position_size, entry_price),
                  risk_amount |-> max_risk_amount,
                  risk_percent |-> RMul(cfg.risk_per_trade, Q(100, 1))]

\* mutant: a position at exactly the safe leverage is reported unsafe
calculate_safe_leverage_strict(account_balance, position_value, volatility) ==
    IF volatility = Zero \/ account_balance = Zero THEN Raise("ZeroDivisionError")
    ELSE LET max_safe_leverage == RMin(Q(3, 1), RDiv(One, volatility))
             current_leverage == RDiv(position_value, account_balance)
         IN  [status |-> "ok",
              max_safe_leverage |-> max_safe_leverage,
              current_leverage |-> current_leverage,
              is_safe |-> RLt(current_leverage, max_safe_leverage)]

\* RiskManager.calculate_safe_leverage
calculate_safe_leverage(account_balance, position_value, volatility) ==
    IF volatility = Zero \/ account_balance = Zero THEN Raise("ZeroDivisionError")
    ELSE LET max_safe_leverage == RMin(Q(3, 1), RDiv(One, volatility))
             current_leverage == RDiv(position_value, account_balance)
         IN  [status |-> "ok",
              max_safe_leverage |-> max_safe_leverage,
              current_leverage |-> current_leverage,
              is_safe |-> RLe(current_leverage, max_safe_leverage)]

\* RiskManager.detect_market_regime.  The volatility np.std(price_data) is
\* carried by its square, the population variance; the comparison of two
\* non-negative roots is the comparison of their squares.
\* mutant: the threshold is the standard deviation of the scalar alone, 0
HighVolatilityTestAgainstZero(variance) ==
    RLt(Zero, variance)

HighVolatilityTest(variance) ==
    \* volatility > np.mean(volatility) + np.std(volatility), where the mean
    \* of the scalar is the scalar itself and its standard deviation is 0:
    \* the threshold is the volatility, and its square the variance
    LET threshold_sq == variance
    IN  RLt(threshold_sq, variance)

HighVolumeTest(recent_volume, avg_volume) ==
    RLt(RMul(avg_volume, Q(3, 2)), recent_volume)

detect_market_regime(price_data, volume_data) ==
    LET variance == Variance(price_data)
        avg_volume == Mean(volume_data)
        recent_volume == Last(volume_data)
        is_high_volatility == HighVolatilityTest(variance)
        is_high_volume == HighVolumeTest(recent_volume, avg_volume)
        regime == IF is_high_volatility /\ is_high_volume THEN "high_risk"
                  ELSE IF is_high_volatility THEN "volatile"
                  ELSE IF is_high_volume THEN "high_volume"
                  ELSE "normal"
        risk_multiplier == IF is_high_volatility /\ is_high_volume THEN Q(1, 2)
                           ELSE IF is_high_volatility THEN Q(7, 10)
                           ELSE IF is_high_volume THEN Q(8, 10)
                           ELSE One
    IN  [status |-> "ok",
         regime |-> regime,
         risk_multiplier |-> risk_multiplier,
         variance |-> variance]

\* RiskManager.generate_portfolio_heat_map.  positions is the dict in its
\* iteration order: a sequence of [symbol, value] with distinct symbols.
EmptyRiskMap == [high_risk |-> <<>>, medium_risk |-> <<>>, low_risk |-> <<>>]

\* mutant: the 20% boundary counted as high risk
HeatBucketInclusive(risk_ratio) ==
    IF RLe(Q(2, 10), risk_ratio) THEN "high_risk"
    ELSE IF RLt(Q(1, 10), risk_ratio) THEN "medium_risk"
    ELSE "low_risk"

HeatBucket(risk_ratio) ==
    IF RLt(Q(2, 10), risk_ratio) THEN "high_risk"
    ELSE IF RLt(Q(1, 10), risk_ratio) THEN "medium_risk"
    ELSE "low_risk"

RECURSIVE HeatLoop(_, _, _, _)
HeatLoop(positions, i, total_exposure, risk_map) ==
    IF i > Len(positions) THEN [status |-> "ok", risk_map |-> risk_map]
    ELSE IF total_exposure = Zero THEN Raise("ZeroDivisionError")
    ELSE LET b == HeatBucket(RDiv(positions[i].value, total_exposure))
         IN  HeatLoop(positions, i + 1, total_exposure,
                      [risk_map EXCEPT ![b] = Append(@, positions[i].symbol)])

generate_portfolio_heat_map(positions) ==
    LET total_exposure == RSum([i \in 1..Len(positions) |-> positions[i].value])
    IN  HeatLoop(positions, 1, total_exposure, EmptyRiskMap)

\* RiskManager.adjust_risk_by_sentiment
SentimentKeys == {"news_sentiment", "social_sentiment", "technical_sentiment"}

SentimentMultiplier(weighted_score) ==
    IF RLt(Q(8, 10), weighted_score) THEN Q(12, 10)
    ELSE IF RLt(weighted_score, Q(2, 10)) THEN Q(6, 10)
    ELSE One

adjust_risk_by_sentiment(base_risk, sentiment_data) ==
    IF ~(SentimentKeys \subseteq DOMAIN sentiment_data) THEN Raise("KeyError")
    ELSE LET weighted_score ==
                 RAdd(RAdd(RMul(sentiment_data.news_sentiment.score, Q(3, 10)),
                           RMul(sentiment_data.social_sentiment.score, Q(3, 10))),
                      RMul(sentiment_data.technical_sentiment.score, Q(4, 10)))
             risk_multiplier == SentimentMultiplier(weighted_score)
         IN  [status |-> "ok",
              original_risk |-> base_risk,
              adjusted_risk |-> RMul(base_risk, risk_multiplier),
              sentiment_score |-> weighted_score,
              risk_multiplier |-> risk_multiplier]

\* RiskManager.calculate_correlation_risk.  asset_returns is the dict in its
\* iteration order: a sequence of [asset, returns]; the correlations dict is
\* a function of its string keys.  A Pearson coefficient
\* cov / sqrt(vx * vy) is carried by its sign and its square; it is NaN when
\* a variance is 0.
NaN == [nan |-> TRUE]

Corrcoef(x, y) ==
    IF Len(x) # Len(y) THEN Raise("ValueError")
    ELSE IF Len(x) = 0 THEN [status |-> "ok", corr |-> NaN]
    ELSE LET mx == Mean(x)
             my == Mean(y)
             cov == RSum([i \in 1..Len(x) |-> RMul(RSub(x[i], mx), RSub(y[i], my))])
             vx == RSum([i \in 1..Len(x) |-> RMul(RSub(x[i], mx), RSub(x[i], mx))])
             vy == RSum([i \in 1..Len(y) |-> RMul(RSub(y[i], my), RSub(y[i], my))])
         IN  IF vx = Zero \/ vy = Zero THEN [status |-> "ok", corr |-> NaN]
             ELSE [status |-> "ok",
                   corr |-> [sign |-> IF cov[1] < 0 THEN -1
                                      ELSE IF cov[1] > 0 THEN 1 ELSE 0,
                             sq |-> RDiv(RMul(cov, cov), RMul(vx, vy))]]

\* abs(corr) > max_correlation; every comparison with NaN is False
AbsCorrAbove(corr, max_correlation) ==
    IF corr = NaN THEN FALSE
    ELSE IF RLt(max_correlation, Zero) THEN TRUE
    ELSE RLt(RMul(max_correlation, max_correlation), corr.sq)

\* the key f"{asset1}-{asset2}" of a pair in the correlations dict
PairKey(asset1, asset2) == asset1 \o "-" \o asset2

\* d[k] = v on a dict: a new key is added, an existing key is overwritten
DictSet(d, k, v) == [x \in DOMAIN d \cup {k} |-> IF x = k THEN v ELSE d[x]]

\* the index pairs (i, j), i < j, in the order of the two nested loops
RECURSIVE PairsFrom(_, _, _)
PairsFrom(i, j, n) ==
    IF i > n THEN <<>>
    ELSE IF j > n THEN PairsFrom(i + 1, i + 2, n)
    ELSE <<<<i, j>>>> \o PairsFrom(i, j + 1, n)

RECURSIVE CorrLoop(_, _, _, _, _)
CorrLoop(cfg, asset_returns, pairs, correlations, high_corr_pairs) ==
    IF pairs = <<>>
    THEN [status |-> "ok",
          correlations |-> correlations,
          high_correlation_pairs |-> high_corr_pairs,
          max_correlation |-> cfg.max_correlation]
    ELSE LET a1 == asset_returns[Head(pairs)[1]]
             a2 == asset_returns[Head(pairs)[2]]
             c == Corrcoef(a1.returns, a2.returns)
         IN  IF ~Ok(c) THEN c
             ELSE CorrLoop(cfg, asset_returns, Tail(pairs),
                           DictSet(correlations, PairKey(a1.asset, a2.asset), c.corr),
                           IF AbsCorrAbove(c.corr, cfg.max_correlation)
                           THEN Append(high_corr_pairs, <<a1.asset, a2.asset, c.corr>>)
                           ELSE high_corr_pairs)

calculate_correlation_risk(cfg, asset_returns) ==
    CorrLoop(cfg, asset_returns, PairsFrom(1, 2, Len(asset_returns)), <<>>, <<>>)

\* RiskManager.calculate_risk_score
RegimeScore(regime) ==
    CASE regime = "high_risk" -> Q(20, 1)
      [] regime = "volatile" -> Q(40, 1)
      [] regime = "high_volume" -> Q(60, 1)
      [] regime = "normal" -> Q(80, 1)
      [] OTHER -> Q(50, 1)

\* mutant: the concentration score is not clamped at 0
ConcentrationScoreUnclamped(heat_map) ==
    Q(100 - Len(heat_map.high_risk) * 20, 1)

ConcentrationScore(heat_map) ==
    RMax(Zero, Q(100 - Len(heat_map.high_risk) * 20, 1))

CorrelationScore(correlation_data) ==
    RMax(Zero, Q(100 - Len(correlation_data.high_correlation_pairs) * 15, 1))

\* mutant: the sentiment and market-regime weights exchanged
WeightedScoreSwapped(scores) ==
    RAdd(RAdd(RAdd(RMul(scores.market_regime, Q(2, 10)),
                   RMul(scores.sentiment, Q(3, 10))),
              RMul(scores.concentration, Q(25, 100))),
         RMul(scores.correlation, Q(25, 100)))

WeightedScore(scores) ==
    RAdd(RAdd(RAdd(RMul(scores.market_regime, Q(3, 10)),
                   RMul(scores.sentiment, Q(2, 10))),
              RMul(scores.concentration, Q(25, 100))),
         RMul(scores.correlation, Q(25, 100)))

\* mutant: the boundaries admit equality
RiskLevelInclusive(final_score) ==
    IF RLe(final_score, Q(40, 1)) THEN "high"
    ELSE IF RLe(final_score, Q(70, 1)) THEN "medium"
    ELSE "low"

RiskLevel(final_score) ==
    IF RLt(final_score, Q(40, 1)) THEN "high"
    ELSE IF RLt(final_score, Q(70, 1)) THEN "medium"
    ELSE "low"

RiskScoreResult(scores, final_score) ==
    [status |-> "ok",
     score |-> final_score,
     level |-> RiskLevel(final_score),
     components |-> scores]

RiskScoreOf(scores) == RiskScoreResult(scores, The({WeightedScore(x) : x \in {scores}}))

\* the four steps in the order of the code; the first that raises ends the call
RiskScoreSteps(market_regime, sentiment_score, heat_map, correlation_data) ==
    IF ~Ok(sentiment_score) THEN sentiment_score
    ELSE IF ~Ok(heat_map) THEN heat_map
    ELSE IF ~Ok(correlation_data) THEN correlation_data
    ELSE RiskScoreOf([market_regime |-> RegimeScore(market_regime.regime),
                      sentiment |-> RMul(sentiment_score.sentiment_score, Q(100, 1)),
                      concentration |-> ConcentrationScore(heat_map.risk_map),
                      correlation |-> CorrelationScore(correlation_data)])

calculate_risk_score(cfg, market_data, sentiment_data, portfolio_data) ==
    The({RiskScoreSteps(market_regime, sentiment_score, heat_map, correlation_data) :
            market_regime \in
                {detect_market_regime(market_data.prices, market_data.volumes)},
            sentiment_score \in {adjust_risk_by_sentiment(One, sentiment_data)},
            heat_map \in
                {IF "positions" \in DOMAIN portfolio_data
                 THEN generate_portfolio_heat_map(portfolio_data.positions)
                 ELSE Raise("KeyError")},
            correlation_data \in
                {IF "returns" \in DOMAIN portfolio_data
                 THEN calculate_correlation_risk(cfg, portfolio_data.returns)
                 ELSE Raise("KeyError")}})

\* RiskManager._calculate_max_drawdown
DrawdownAt(peak, capital) == RDiv(RSub(peak, capital), peak)

RECURSIVE DrawdownLoop(_, _, _, _)
DrawdownLoop(capitals, i, peak, max_dd) ==
    IF i > Len(capitals) THEN [status |-> "ok", value |-> RMul(max_dd, Q(100, 1))]
    ELSE IF RMax(peak, capitals[i]) = Zero THEN Raise("ZeroDivisionError")
    ELSE The({DrawdownLoop(capitals, i + 1, new_peak, RMax(max_dd, dd)) :
                 new_peak \in {RMax(peak, capitals[i])},
                 dd \in {DrawdownAt(RMax(peak, capitals[i]), capitals[i])}})

CapitalsOf(trades) == [i \in 1..Len(trades) |-> trades[i].capital]

calculate_max_drawdown(trades) ==
    IF Len(trades) = 0 THEN Raise("IndexError")
    ELSE DrawdownLoop(CapitalsOf(trades), 1, trades[1].capital, Zero)

\* mutant: the test for an empty list of returns left out, so that the
\* mean of no returns, NaN, is carried to the result
calculate_sharpe_ratio_unguarded(trades) ==
    IF \E i \in 1..(Len(trades) - 1) : trades[i].capital = Zero
    THEN Raise("ZeroDivisionError")
    ELSE LET returns == [i \in 1..(Len(trades) - 1) |->
                            RDiv(RSub(trades[i + 1].capital, trades[i].capital),
                                 trades[i].capital)]
         IN  IF Len(returns) = 0 THEN [status |-> "ok", value |-> <<0, 0>>]
             ELSE IF Variance(returns) = Zero THEN [status |-> "ok", value |-> Zero]
             ELSE [status |-> "ok",
                   value |-> [avg_return |-> Mean(returns),
                              variance |-> Variance(returns)]]

\* RiskManager._calculate_sharpe_ratio.  A non-zero ratio
\* (avg_return / std_return) * sqrt(252) is carried by the mean and the
\* variance of the period returns.
calculate_sharpe_ratio(trades) ==
    IF \E i \in 1..(Len(trades) - 1) : trades[i].capital = Zero
    THEN Raise("ZeroDivisionError")
    ELSE LET returns == [i \in 1..(Len(trades) - 1) |->
                            RDiv(RSub(trades[i + 1].capital, trades[i].capital),
                                 trades[i].capital)]
         IN  IF Len(returns) = 0 THEN [status |-> "ok", value |-> Zero]
             ELSE IF Variance(returns) = Zero THEN [status |-> "ok", value |-> Zero]
             ELSE [status |-> "ok",
                   value |-> [avg_return |-> Mean(returns),
                              variance |-> Variance(returns)]]

\* RiskManager._calculate_risk_adjusted_return
RiskAdjustedOf(total_return, max_dd) ==
    IF ~Ok(max_dd) THEN max_dd
    ELSE IF max_dd.value = Zero THEN [status |-> "ok", value |-> Zero]
    ELSE [status |-> "ok", value |-> RDiv(total_return, RDiv(max_dd.value, Q(100, 1)))]

calculate_risk_adjusted_return(trades) ==
    IF Len(trades) = 0 THEN Raise("IndexError")
    ELSE IF trades[1].capital = Zero THEN Raise("ZeroDivisionError")
    ELSE The({RiskAdjustedOf(total_return, max_dd) :
                 total_return \in
                     {RDiv(RSub(Last(trades).capital, trades[1].capital),
                           trades[1].capital)},
                 max_dd \in {calculate_max_drawdown(trades)}})

DefaultInitialCapital == 10000

\* RiskManager.backtest_risk_strategy: the body of the loop for one period
TradeOf(date, data, capital, risk_score, original_size, adjusted_size, trade_result) ==
    [status |-> "ok",
     capital |-> RAdd(capital, trade_result),
     trade |-> [date |-> date,
                risk_score |-> risk_score,
                position_size |-> adjusted_size,
                pnl |-> trade_result,
                capital |-> RAdd(capital, trade_result)],
     adjustment |-> [date |-> date,
                     original_size |-> original_size,
                     adjusted_size |-> adjusted_size,
                     risk_score |-> risk_score]]

\* mutant: the score read as a risk, not as a safety: size * ((100 - score) / 100)
AdjustedSizeInverted(position_size, risk_score) ==
    RMul(position_size, RDiv(RSub(Q(100, 1), risk_score.score), Q(100, 1)))

\* mutant: the nominal size taken as it is, the risk score forgotten
AdjustedSizeUnscaled(position_size, risk_score) == position_size

AdjustedSize(position_size, risk_score) ==
    RMul(position_size, RDiv(risk_score.score, Q(100, 1)))

BacktestTrade(date, data, capital, risk_score, position_size) ==
    IF ~Ok(risk_score) THEN risk_score
    ELSE IF ~Ok(position_size) THEN position_size
    ELSE The({TradeOf(date, data, capital, risk_score, position_size.position_size,
                      adjusted_size,
                      RMul(adjusted_size, RSub(data.next_price, data.price))) :
                 adjusted_size \in
                     {AdjustedSize(position_size.position_size, risk_score)}})

\* mutant: the stop is placed 1% below the price, not 5%
BacktestPeriodBodyTightStop(cfg, capital, date, data) ==
    The({BacktestTrade(date, data, capital, risk_score, position_size) :
            risk_score \in
                {calculate_risk_score(cfg, data.market, data.sentiment, data.portfolio)},
            position_size \in
                {calculate_position_size(cfg, capital, data.price,
                                         RMul(data.price, Q(99, 100)))}})

BacktestPeriodBody(cfg, capital, date, data) ==
    The({BacktestTrade(date, data, capital, risk_score, position_size) :
            risk_score \in
                {calculate_risk_score(cfg, data.market, data.sentiment, data.portfolio)},
            position_size \in
                {calculate_position_size(cfg, capital, data.price,
                                         RMul(data.price, Q(95, 100)))}})

\* RiskManager.backtest_risk_strategy: the metrics computed after the loop
MetricsOf(initial_capital, capital, max_drawdown, sharpe_ratio, risk_adjusted_return) ==
    IF ~Ok(max_drawdown) THEN max_drawdown
    ELSE IF ~Ok(sharpe_ratio) THEN sharpe_ratio
    ELSE IF ~Ok(risk_adjusted_return) THEN risk_adjusted_return
    ELSE [status |-> "ok",
          final_capital |-> capital,
          total_return |->
              RMul(RDiv(RSub(capital, initial_capital), initial_capital), Q(100, 1)),
          max_drawdown |-> max_drawdown.value,
          sharpe_ratio |-> sharpe_ratio.value,
          risk_adjusted_return |-> risk_adjusted_return.value]

BacktestMetricsOf(initial_capital, capital, trades) ==
    IF initial_capital = Zero THEN Raise("ZeroDivisionError")
    ELSE The({MetricsOf(initial_capital, capital, max_drawdown, sharpe_ratio,
                        risk_adjusted_return) :
                 max_drawdown \in {calculate_max_drawdown(trades)},
                 sharpe_ratio \in {calculate_sharpe_ratio(trades)},
                 risk_adjusted_return \in {calculate_risk_adjusted_return(trades)}})

(***************************************************************************)
(* TradingDataset and DataPipeline                                         *)
(***************************************************************************)
\* TradingDataset._prepare_data: a row of the tensor holds the scaled close
\* in column 0 and the scaled volume in column 1 of the frame's row
PreparedRow(r) ==
    [price |-> [scaled |-> "close", row |-> r],
     volume |-> [scaled |-> "volume", row |-> r]]

\* TradingDataset.__init__ on a frame, the sequence of its rows' timestamps
TradingDatasetInit(frame, sequence_length, prediction_horizon) ==
    [data |-> [i \in 1..Len(frame) |-> PreparedRow(frame[i])],
     sequence_length |-> sequence_length,
     prediction_horizon |-> prediction_horizon]

\* mutant: the prediction horizon is not taken off the length
dataset_len_without_horizon(ds) ==
    Len(ds.data) - ds.sequence_length

\* TradingDataset.__len__
dataset_len(ds) ==
    Len(ds.data) - ds.sequence_length - ds.prediction_horizon

\* the slice s[a:b] for 0 <= a <= b, clipped at the end of s as Python does
Slice(s, a, b) ==
    LET lo == IF a < Len(s) THEN a ELSE Len(s)
        hi == IF b < Len(s) THEN b ELSE Len(s)
    IN  SubSeq(s, lo + 1, hi)

\* TradingDataset.__getitem__
dataset_getitem(ds, idx) ==
    LET x == Slice(ds.data, idx, idx + ds.sequence_length)
        target == Slice(ds.data, idx + ds.sequence_length,
                        idx + ds.sequence_length + ds.prediction_horizon)
    IN  [status |-> "ok",
         x |-> x,
         y |-> [k \in 1..Len(target) |-> target[k].price]]

\* DataPipeline.prepare_data: the split of the frame and the two datasets
TrainSize(n) == (n * 4) \div 5

prepare_data(frame, sequence_length, prediction_horizon) ==
    [train |-> TradingDatasetInit(SubSeq(frame, 1, TrainSize(Len(frame))),
                                  sequence_length, prediction_horizon),
     val |-> TradingDatasetInit(SubSeq(frame, TrainSize(Len(frame)) + 1, Len(frame)),
                                sequence_length, prediction_horizon)]

\* the default collation of a batch: the samples' x and y, stacked
Collate(ds, indices) ==
    [status |-> "ok",
     x |-> [k \in 1..Len(indices) |-> dataset_getitem(ds, indices[k]).x],
     y |-> [k \in 1..Len(indices) |-> dataset_getitem(ds, indices[k]).y]]

(***************************************************************************)
(* TelegramService                                                         *)
(***************************************************************************)
\* datetime.now().strftime('%Y%m%d%H%M%S'): the clock read to the second.
\* The clock of the model counts the seconds from 2024-01-01 00:00:00.
OrderIds ==
    <<"20240101000000", "20240101000001", "20240101000002", "20240101000003",
      "20240101000004">>

StrfTime(now) == OrderIds[now + 1]

\* TelegramService._create_approval_keyboard: the callback data of the two buttons
CallbackData(action, order_id) == action \o "_" \o order_id

create_approval_keyboard(order_id) ==
    <<CallbackData("approve", order_id), CallbackData("reject", order_id)>>

\* an order id no signal was ever stored under
ForeignOrderId == "19991231235959"

ButtonActions == {"approve", "reject"}

\* query.data.split('_') on the data of a button: the action and the order id
SplitData(data) ==
    CHOOSE p \in ButtonActions \X ({OrderIds[i] : i \in 1..Len(OrderIds)} \cup {ForeignOrderId}) :
        CallbackData(p[1], p[2]) = data

\* del d[k]
DictDel(d, k) == [x \in DOMAIN d \ {k} |-> d[x]]

\* TelegramService.__init__, with the clock at its first second
TelegramServiceInit ==
    [now |-> 0,
     pending_orders |-> <<>>,
     sent |-> <<>>,
     callback |-> None,
     answers |-> <<>>]

\* TelegramService.send_trade_signal: the signal is stored under the order
\* id of the current second, then the message with its keyboard is sent;
\* the call returns whether the message went out
send_trade_signal(service, signal_data, delivered) ==
    The({[service EXCEPT
             !.pending_orders = DictSet(@, order_id, signal_data),
             !.sent = Append(@, [order_id |-> order_id,
                                 symbol |-> signal_data.symbol,
                                 keyboard |-> create_approval_keyboard(order_id),
                                 result |-> delivered])] :
            order_id \in {StrfTime(service.now)}})

ExpiredAnswer == "Order expired or already processed"

\* TelegramService._button_callback up to its await: an unknown order id is
\* answered at once, a pending one is read and its message is being edited
button_callback_begin(service, data) ==
    The({IF p[2] \notin DOMAIN service.pending_orders
         THEN [service EXCEPT
                  !.answers = Append(@, [action |-> p[1], order_id |-> p[2],
                                         reply |-> ExpiredAnswer])]
         ELSE [service EXCEPT
                  !.callback = [action |-> p[1], order_id |-> p[2],
                                signal_data |-> service.pending_orders[p[2]]]] :
            p \in {SplitData(data)}})

\* TelegramService._button_callback after its await: edit_message_text has
\* raised, and the handler ends there, or has returned, and the order is
\* deleted
button_callback_end(service, edited) ==
    LET c == service.callback
        reply == IF ~edited THEN "TelegramError"
                 ELSE IF c.order_id \notin DOMAIN service.pending_orders THEN "KeyError"
                 ELSE IF c.action = "approve" THEN "Order Approved"
                 ELSE "Order Rejected"
    IN  [service EXCEPT
            !.callback = None,
            !.answers = Append(@, [action |-> c.action, order_id |-> c.order_id,
                                   symbol |-> c.signal_data.symbol, reply |-> reply]),
            !.pending_orders = IF edited THEN DictDel(@, c.order_id) ELSE @]

(***************************************************************************)
(* SignalScorer                                                            *)
(***************************************************************************)
RsiPeriod == 14
Sma20Window == 20
Sma50Window == 50

\* SignalScorer.__init__: the scorer's own thresholds and its RiskManager
SignalScorerInit(confidence_threshold, min_risk_reward, max_portfolio_risk) ==
    LET rm == RiskManagerInit([risk_per_trade |-> max_portfolio_risk,
                               max_portfolio_risk |-> RMul(max_portfolio_risk, Q(3, 1))])
    IN  [confidence_threshold |-> confidence_threshold,
         min_risk_reward |-> min_risk_reward,
         risk_per_trade |-> rm.risk_per_trade,
         max_portfolio_risk |-> rm.max_portfolio_risk,
         max_correlation |-> rm.max_correlation]

\* a float NaN (np.mean of an empty slice)
FloatNaN == <<0, 0>>

\* np.diff
Diff(prices) == [i \in 1..(Len(prices) - 1) |-> RSub(prices[i + 1], prices[i])]

\* mutant: the averages are taken over every delta, not over the last `period`
calculate_rsi_unwindowed(prices, period) ==
    LET deltas == Diff(prices)
        gain == [i \in 1..Len(deltas) |-> IF RLt(Zero, deltas[i]) THEN deltas[i] ELSE Zero]
        loss == [i \in 1..Len(deltas) |-> IF RLt(deltas[i], Zero) THEN RNeg(deltas[i]) ELSE Zero]
    IN  IF Len(deltas) = 0 THEN FloatNaN
        ELSE LET avg_gain == Mean(gain)
                 avg_loss == Mean(loss)
             IN  IF avg_loss = Zero THEN Q(100, 1)
                 ELSE LET rs == RDiv(avg_gain, avg_loss)
                      IN  RSub(Q(100, 1), RDiv(Q(100, 1), RAdd(One, rs)))

\* SignalScorer._calculate_rsi
calculate_rsi(prices, period) ==
    LET deltas == Diff(prices)
        gain == [i \in 1..Len(deltas) |-> IF RLt(Zero, deltas[i]) THEN deltas[i] ELSE Zero]
        loss == [i \in 1..Len(deltas) |-> IF RLt(deltas[i], Zero) THEN RNeg(deltas[i]) ELSE Zero]
    IN  IF Len(deltas) = 0 THEN FloatNaN
        ELSE LET avg_gain == Mean(LastN(gain, period))
                 avg_loss == Mean(LastN(loss, period))
             IN  IF avg_loss = Zero THEN Q(100, 1)
                 ELSE LET rs == RDiv(avg_gain, avg_loss)
                      IN  RSub(Q(100, 1), RDiv(Q(100, 1), RAdd(One, rs)))

RsiScore(rsi) ==
    IF rsi = FloatNaN THEN Q(1, 2)
    ELSE IF RLt(rsi, Q(30, 1)) THEN One
    ELSE IF RLt(Q(70, 1), rsi) THEN Zero
    ELSE Q(1, 2)

VolumeScore(volume_data) ==
    LET vol_avg == Mean(LastN(volume_data, Sma20Window))
        vol_current == Last(volume_data)
    IN  IF RLt(RMul(vol_avg, Q(3, 2)), vol_current) THEN One ELSE Q(1, 2)

\* SignalScorer._calculate_trend_score
calculate_trend_score(prices) ==
    LET sma_20 == Mean(LastN(prices, Sma20Window))
        sma_50 == Mean(LastN(prices, Sma50Window))
        current_price == Last(prices)
    IN  IF RLt(sma_20, current_price) /\ RLt(sma_50, sma_20) THEN One
        ELSE IF RLt(current_price, sma_20) /\ RLt(sma_20, sma_50) THEN Zero
        ELSE Q(1, 2)

\* mutant: the weights of the RSI and the trend score change places
calculate_technical_score_reweighted(price_data, volume_data) ==
    LET rsi_score == RsiScore(calculate_rsi(price_data, RsiPeriod))
        volume_score == VolumeScore(volume_data)
        trend_score == calculate_trend_score(price_data)
    IN  RAdd(RAdd(RMul(rsi_score, Q(4, 10)), RMul(volume_score, Q(3, 10))),
             RMul(trend_score, Q(3, 10)))

\* SignalScorer._calculate_technical_score
calculate_technical_score(price_data, volume_data) ==
    LET rsi_score == RsiScore(calculate_rsi(price_data, RsiPeriod))
        volume_score == VolumeScore(volume_data)
        trend_score == calculate_trend_score(price_data)
    IN  RAdd(RAdd(RMul(rsi_score, Q(3, 10)), RMul(volume_score, Q(3, 10))),
             RMul(trend_score, Q(4, 10)))

\* SignalScorer._calculate_position_size
scorer_position_size(cfg, price, stop_loss, risk_score) ==
    LET risk_amount == RMul(Q(100, 1), RMul(cfg.risk_per_trade, RDiv(risk_score, Q(100, 1))))
        price_risk == RAbs(RSub(price, stop_loss))
    IN  IF price_risk = Zero THEN Raise("ZeroDivisionError")
        ELSE [status |-> "ok", size |-> RDiv(risk_amount, price_risk)]

\* SignalScorer._combine_signals
FinalScore(confidence, technical_score, risk_score) ==
    RAdd(RAdd(RMul(confidence, Q(3, 10)), RMul(technical_score, Q(3, 10))),
         RMul(RDiv(risk_score, Q(100, 1)), Q(4, 10)))

\* mutant: the price-change tests admit equality
DecideActionInclusive(price_change, volatility, final_score) ==
    IF RLe(volatility, price_change) /\ RLt(Q(7, 10), final_score) THEN "BUY"
    ELSE IF RLe(price_change, RNeg(volatility)) /\ RLt(Q(7, 10), final_score) THEN "SELL"
    ELSE "WAIT"

DecideAction(price_change, volatility, final_score) ==
    IF RLt(volatility, price_change) /\ RLt(Q(7, 10), final_score) THEN "BUY"
    ELSE IF RLt(price_change, RNeg(volatility)) /\ RLt(Q(7, 10), final_score) THEN "SELL"
    ELSE "WAIT"

StopLoss(price, price_change, volatility) ==
    IF RLt(Zero, price_change) THEN RMul(price, RSub(One, volatility))
    ELSE RMul(price, RAdd(One, volatility))

\* mutant: the target placed one risk away, min_risk_reward forgotten
TargetOneRisk(cfg, price, price_change, risk) ==
    IF RLt(Zero, price_change) THEN RAdd(price, risk) ELSE RSub(price, risk)

Target(cfg, price, price_change, risk) ==
    IF RLt(Zero, price_change) THEN RAdd(price, RMul(risk, cfg.min_risk_reward))
    ELSE RSub(price, RMul(risk, cfg.min_risk_reward))

\* mutant: the confidence test inverted
LowConfidenceInverted(cfg, confidence) == RLt(cfg.confidence_threshold, confidence)

LowConfidence(cfg, confidence) == RLt(confidence, cfg.confidence_threshold)

\* the decision once the confidence test has passed
CombineDecision(cfg, price, price_change, confidence, volatility, technical_score, risk_score, stop_loss, target) ==
    IF RSub(stop_loss, price) = Zero THEN Raise("ZeroDivisionError")
    ELSE The({IF ~Ok(size) THEN size
              ELSE [status |-> "ok",
                    action |-> DecideAction(price_change, volatility, final_score),
                    confidence |-> final_score,
                    target_price |-> target,
                    stop_loss |-> stop_loss,
                    risk_reward |-> RDiv(RAbs(RSub(target, price)),
                                         RAbs(RSub(stop_loss, price))),
                    position_size |-> size.size] :
                 final_score \in {FinalScore(confidence, technical_score, risk_score)},
                 size \in {scorer_position_size(cfg, price, stop_loss, risk_score)}})

CombineWithStop(cfg, price, price_change, confidence, volatility, technical_score, risk_score, stop_loss) ==
    CombineDecision(cfg, price, price_change, confidence, volatility, technical_score,
                    risk_score, stop_loss,
                    Target(cfg, price, price_change, RAbs(RSub(price, stop_loss))))

CombineWithChange(cfg, price, price_change, confidence, volatility, technical_score, risk_score) ==
    IF LowConfidence(cfg, confidence)
    THEN [status |-> "ok",
          action |-> "WAIT",
          confidence |-> confidence,
          target_price |-> None,
          stop_loss |-> None,
          risk_reward |-> Zero,
          position_size |-> Zero]
    ELSE The({CombineWithStop(cfg, price, price_change, confidence, volatility,
                              technical_score, risk_score, stop_loss) :
                 stop_loss \in {StopLoss(price, price_change, volatility)}})

combine_signals(cfg, price, predicted_price, confidence, volatility, technical_score, risk_score) ==
    IF price = Zero THEN Raise("ZeroDivisionError")
    ELSE The({CombineWithChange(cfg, price, price_change, confidence, volatility,
                                technical_score, risk_score) :
                 price_change \in {RDiv(RSub(predicted_price, price), price)}})

(***************************************************************************)
(* Inputs.                                                                 *)
(***************************************************************************)
MaxPositions == 3

Ints(S) == {Q(n, 1) : n \in S}
Series(s) == [i \in 1..Len(s) |-> Q(s[i], 1)]

\* constructor arguments of SignalScorer
Configs ==
    {SignalScorerInit(Q(7, 10), Q(2, 1), DefaultRiskPerTrade),
     SignalScorerInit(Q(6, 10), Q(3, 2), DefaultRiskPerTrade)}

Prices == Ints({0, 50, 100})
PredictedPrices == Ints({45, 90, 95, 100, 105, 110})
Confidences == {Q(1, 2), Q(6, 10), Q(7, 10), Q(9, 10)}
Volatilities == {Zero, Q(5, 100), Q(1, 10)}
TechnicalScores == {Q(1, 2), Q(7, 10), Q(8, 10)}
RiskScores == Ints({0, 70, 90})

SymbolNames == <<"BTC", "ETH", "SOL", "ADA", "XRP">>
PositionValues == Ints({-10, 0, 10, 20, 70})

\* the positions dicts over the first symbols, at most MaxPositions of them
RECURSIVE PositionsFrom(_, _, _)
PositionsFrom(i, room, values) ==
    IF i > Len(SymbolNames) \/ room = 0 THEN {<<>>}
    ELSE {<<>>}
         \cup {<<[symbol |-> SymbolNames[i], value |-> v]>> \o rest :
                  v \in values, rest \in PositionsFrom(i + 1, room - 1, values)}

AllPositions == PositionsFrom(1, MaxPositions, PositionValues)

ReturnSeries ==
    {Series(<<1, 2, 3>>), Series(<<3, 2, 1>>), Series(<<1, 3, 2>>), Series(<<1, 1, 1>>)}

Asset(i, r) == [asset |-> SymbolNames[i], returns |-> r]

\* asset_returns dicts: none flagged, one pair flagged, a constant series
\* (NaN), and three assets with every pair flagged
ReturnSamples ==
    {<<>>,
     <<Asset(1, Series(<<1, 2, 3>>)), Asset(2, Series(<<1, 3, 2>>))>>,
     <<Asset(1, Series(<<1, 2, 3>>)), Asset(2, Series(<<3, 2, 1>>))>>,
     <<Asset(1, Series(<<1, 2, 3>>)), Asset(2, Series(<<1, 1, 1>>))>>,
     <<Asset(1, Series(<<1, 2, 3>>)), Asset(2, Series(<<3, 2, 1>>)),
       Asset(3, Series(<<2, 4, 6>>))>>}

MarketSamples ==
    {[prices |-> Series(<<100, 100>>), volumes |-> Series(<<10, 10>>)],
     [prices |-> Series(<<100, 110, 90>>), volumes |-> Series(<<10, 10, 40>>)],
     [prices |-> Series(<<100, 110, 90>>), volumes |-> Series(<<10, 40>>)]}

SentimentSamples ==
    {[news_sentiment |-> [score |-> n],
      social_sentiment |-> [score |-> so],
      technical_sentiment |-> [score |-> t]] :
        n \in {Zero, One, Q(3, 2)}, so \in {Zero, One}, t \in {Q(-1, 2), One}}
    \cup {[score |-> Q(1, 2)]}

Position(i, v) == [symbol |-> SymbolNames[i], value |-> Q(v, 1)]

\* positions dicts: empty, spread, four equal quarters, one holding, and a
\* long and a short that cancel
PortfolioSamples ==
    {<<>>,
     <<Position(1, 70), Position(2, 20), Position(3, 10)>>,
     <<Position(1, 10), Position(2, 10), Position(3, 10), Position(4, 10)>>,
     <<Position(1, 70)>>,
     <<Position(1, 10), Position(2, -10)>>}

TypeNone == [op |-> "none"]

Init ==
    /\ config \in Configs
    /\ call = TypeNone
    /\ gs = [pc |-> "idle"]
    /\ bt = [pc |-> "idle"]
    /\ tg = TelegramServiceInit

\* a call of SignalScorer._combine_signals with arguments of the given sets
CombineSignalsOn(prices, predicted_prices, confidences, volatilities, technical_scores, risk_scores) ==
    \E price \in prices, predicted_price \in predicted_prices,
       confidence \in confidences, volatility \in volatilities,
       technical_score \in technical_scores, risk_score \in risk_scores :
        /\ call = TypeNone
        /\ call' = [op |-> "_combine_signals",
                    args |-> [price |-> price,
                              predicted_price |-> predicted_price,
                              confidence |-> confidence,
                              volatility |-> volatility,
                              technical_score |-> technical_score,
                              risk_score |-> risk_score],
                    ret |-> combine_signals(config, price, predicted_price, confidence,
                                            volatility, technical_score, risk_score)]
        /\ UNCHANGED <<config, gs, bt, tg>>

CallCombineSignals ==
    CombineSignalsOn(Prices, PredictedPrices, Confidences, Volatilities,
                     TechnicalScores, RiskScores)

\* a call of RiskManager.generate_portfolio_heat_map
HeatMapOn(portfolios) ==
    \E positions \in portfolios :
        /\ call = TypeNone
        /\ call' = [op |-> "generate_portfolio_heat_map",
                    args |-> [positions |-> positions],
                    ret |-> generate_portfolio_heat_map(positions)]
        /\ UNCHANGED <<config, gs, bt, tg>>

CallHeatMap == HeatMapOn(AllPositions)

\* a call of RiskManager.calculate_risk_score
RiskScoreOn(markets, sentiments, portfolios, return_dicts) ==
    \E market_data \in markets, sentiment_data \in sentiments,
       positions \in portfolios, returns \in return_dicts :
        /\ call = TypeNone
        /\ call' = [op |-> "calculate_risk_score",
                    args |-> [market_data |-> market_data,
                              sentiment_data |-> sentiment_data,
                              portfolio_data |-> [positions |-> positions,
                                                  returns |-> returns]],
                    ret |-> calculate_risk_score(config, market_data, sentiment_data,
                                                 [positions |-> positions,
                                                  returns |-> returns])]
        /\ UNCHANGED <<config, gs, bt, tg>>

CallRiskScore ==
    RiskScoreOn(MarketSamples, SentimentSamples, PortfolioSamples, ReturnSamples)

\* crowded portfolios: five and six holdings of 30% each beside a short
\* that brings the total to 100; and five assets whose returns are multiples
\* of one another, every one of the ten pairs perfectly correlated
CrowdedNames == <<"BTC", "ETH", "SOL", "ADA", "XRP", "DOT", "LTC">>
CrowdedPortfolios ==
    {[i \in 1..6 |-> [symbol |-> CrowdedNames[i], value |-> Q(IF i = 6 THEN -50 ELSE 30, 1)]],
     [i \in 1..7 |-> [symbol |-> CrowdedNames[i], value |-> Q(IF i = 7 THEN -80 ELSE 30, 1)]]}
CrowdedReturns ==
    {<<>>,
     [i \in 1..5 |-> [asset |-> CrowdedNames[i], returns |-> Series(<<i, 2 * i, 3 * i>>)]]}

\* a call of RiskManager.calculate_risk_score on a crowded portfolio
CallRiskScoreCrowded ==
    RiskScoreOn(MarketSamples, SentimentSamples, CrowdedPortfolios, CrowdedReturns)

AssetNamed(name, r) == [asset |-> name, returns |-> Series(r)]

\* asset_returns dicts for calculate_correlation_risk: those of the risk
\* score, four assets with and without hyphens in their names, and series
\* of one sample, of no sample and of different lengths
CorrelationSamples ==
    ReturnSamples
    \cup {<<AssetNamed("BTC", <<1, 2, 3>>), AssetNamed("USD-ETH", <<1, 3, 2>>),
            AssetNamed("BTC-USD", <<3, 2, 1>>), AssetNamed("ETH", <<2, 4, 6>>)>>,
          <<AssetNamed("BTC", <<1, 2, 3>>), AssetNamed("ETH", <<1, 2, 4>>),
            AssetNamed("SOL", <<3, 2, 1>>), AssetNamed("ADA", <<1, 3, 2>>)>>,
          <<AssetNamed("BTC", <<1>>), AssetNamed("ETH", <<2>>)>>,
          <<AssetNamed("BTC", <<>>), AssetNamed("ETH", <<>>)>>,
          <<AssetNamed("BTC", <<1, 2, 3>>), AssetNamed("ETH", <<1, 2>>)>>,
          <<AssetNamed("BTC", <<1, 2, 3>>)>>}

\* a call of RiskManager.calculate_correlation_risk
CallCorrelationRisk ==
    \E asset_returns \in CorrelationSamples :
        /\ call = TypeNone
        /\ call' = [op |-> "calculate_correlation_risk",
                    args |-> [asset_returns |-> asset_returns],
                    ret |-> calculate_correlation_risk(config, asset_returns)]
        /\ UNCHANGED <<config, gs, bt, tg>>

AccountBalances == Ints({10000})
EntryPrices == Ints({0, 100})
StopLossPrices == Ints({0, 95, 100})

\* a call of RiskManager.calculate_position_size
CallPositionSize ==
    \E account_balance \in AccountBalances, entry_price \in EntryPrices,
       stop_loss_price \in StopLossPrices :
        /\ call = TypeNone
        /\ call' = [op |-> "calculate_position_size",
                    args |-> [account_balance |-> account_balance,
                              entry_price |-> entry_price,
                              stop_loss_price |-> stop_loss_price],
                    ret |-> calculate_position_size(config, account_balance, entry_price,
                                                    stop_loss_price)]
        /\ UNCHANGED <<config, gs, bt, tg>>

\* price and volume series, of equal and of different lengths,
\* and two series longer than the 20-price window: a low first price, then
\* a rise at the end; a high first price, then a fall at the end
TrendUp == [i \in 1..(Sma20Window + 1) |->
               Q(IF i = 1 THEN 10 ELSE IF i = Sma20Window + 1 THEN 110 ELSE 100, 1)]
TrendDown == [i \in 1..(Sma20Window + 1) |->
                 Q(IF i = 1 THEN 200 ELSE IF i = Sma20Window + 1 THEN 90 ELSE 100, 1)]
PriceSeries == {Series(<<100, 100>>), Series(<<100, 110, 90>>), Series(<<90, 100, 110, 120>>)}
TrendSeries == PriceSeries \cup {TrendUp, TrendDown}
VolumeSeries == {Series(<<10, 10>>), Series(<<10, 10, 40>>)}

\* a call of RiskManager.detect_market_regime
CallDetectMarketRegime ==
    \E price_data \in PriceSeries, volume_data \in VolumeSeries :
        /\ call = TypeNone
        /\ call' = [op |-> "detect_market_regime",
                    args |-> [prices |-> price_data, volumes |-> volume_data],
                    ret |-> detect_market_regime(price_data, volume_data)]
        /\ UNCHANGED <<config, gs, bt, tg>>

\* a call of SignalScorer._calculate_technical_score
CallTechnicalScore ==
    \E price_data \in TrendSeries, volume_data \in VolumeSeries :
        /\ call = TypeNone
        /\ call' = [op |-> "_calculate_technical_score",
                    args |-> [prices |-> price_data, volumes |-> volume_data],
                    ret |-> [status |-> "ok",
                             value |-> calculate_technical_score(price_data, volume_data)]]
        /\ UNCHANGED <<config, gs, bt, tg>>

\* price series of one to MaxRsiPrices prices, and the periods RSI is asked over
MaxRsiPrices == 4
RsiLevels == Ints({90, 100, 110})
RsiSeries == UNION {[1..n -> RsiLevels] : n \in 1..MaxRsiPrices}
RsiPeriods == {2, RsiPeriod}

\* a call of SignalScorer._calculate_rsi
CallRsi ==
    \E prices \in RsiSeries, period \in RsiPeriods :
        /\ call = TypeNone
        /\ call' = [op |-> "_calculate_rsi",
                    args |-> [prices |-> prices, period |-> period],
                    ret |-> [status |-> "ok", value |-> calculate_rsi(prices, period)]]
        /\ UNCHANGED <<config, gs, bt, tg>>

\* frames of up to MaxRows rows, windows of up to MaxWindow rows
MaxRows == 11
MaxWindow == 2
BatchSize == 2
Frame(n) == [i \in 1..n |-> i]

\* a call of TradingDataset.__getitem__ at an index within the data
CallGetItem ==
    \E n \in 1..MaxRows, sequence_length \in 1..MaxWindow,
       prediction_horizon \in 1..MaxWindow :
        \E idx \in 0..(n - 1) :
            /\ call = TypeNone
            /\ call' = [op |-> "__getitem__",
                        args |-> [rows |-> n,
                                  sequence_length |-> sequence_length,
                                  prediction_horizon |-> prediction_horizon,
                                  idx |-> idx],
                        ret |-> dataset_getitem(
                                    TradingDatasetInit(Frame(n), sequence_length,
                                                       prediction_horizon), idx)]
            /\ UNCHANGED <<config, gs, bt, tg>>

\* the index lists of the batches a loader can yield: chunks of BatchSize
\* indices, the last one shorter, of a permutation (shuffle) or of the
\* indices in order
BatchIndices(len, shuffle) ==
    {b \in UNION {[1..k -> 0..(len - 1)] : k \in 1..BatchSize} :
        /\ \A i, j \in 1..Len(b) : i # j => b[i] # b[j]
        /\ Len(b) = BatchSize \/ Len(b) = len % BatchSize
        /\ ~shuffle =>
               /\ b[1] % BatchSize = 0
               /\ \A i \in 1..Len(b) : b[i] = b[1] + i - 1
               /\ Len(b) < BatchSize => b[1] + Len(b) = len}

\* a batch of one of the loaders returned by DataPipeline.prepare_data
CallNextBatch ==
    \E n \in 1..MaxRows, sequence_length \in 1..MaxWindow,
       prediction_horizon \in 1..MaxWindow, loader \in {"train", "val"} :
        \E ds \in {prepare_data(Frame(n), sequence_length, prediction_horizon)[loader]} :
            \E indices \in BatchIndices(dataset_len(ds), loader = "train") :
                /\ call = TypeNone
                /\ call' = [op |-> "next_batch",
                            args |-> [rows |-> n,
                                      sequence_length |-> sequence_length,
                                      prediction_horizon |-> prediction_horizon,
                                      loader |-> loader,
                                      indices |-> indices],
                            ret |-> Collate(ds, indices)]
                /\ UNCHANGED <<config, gs, bt, tg>>

PositionValuesHeld == Ints({0, 20000, 30000, 40000})
LeverageVolatilities == {Zero, Q(1, 10), Q(1, 2)}

\* a call of RiskManager.calculate_safe_leverage
CallSafeLeverage ==
    \E account_balance \in AccountBalances, position_value \in PositionValuesHeld,
       volatility \in LeverageVolatilities :
        /\ call = TypeNone
        /\ call' = [op |-> "calculate_safe_leverage",
                    args |-> [account_balance |-> account_balance,
                              position_value |-> position_value,
                              volatility |-> volatility],
                    ret |-> calculate_safe_leverage(account_balance, position_value,
                                                    volatility)]
        /\ UNCHANGED <<config, gs, bt, tg>>

BaseRisks == {Q(1, 50), One}

\* mutant: the adjusted risk is stored as the instance's risk_per_trade
CallAdjustRiskStoring ==
    \E base_risk \in BaseRisks, sentiment_data \in SentimentSamples :
        /\ call = TypeNone
        /\ call' = [op |-> "adjust_risk_by_sentiment",
                    args |-> [base_risk |-> base_risk, sentiment_data |-> sentiment_data],
                    ret |-> adjust_risk_by_sentiment(base_risk, sentiment_data)]
        /\ config' = IF Ok(call'.ret)
                     THEN [config EXCEPT !.risk_per_trade = call'.ret.adjusted_risk]
                     ELSE config
        /\ UNCHANGED <<gs, bt, tg>>

\* a call of RiskManager.adjust_risk_by_sentiment
CallAdjustRisk ==
    \E base_risk \in BaseRisks, sentiment_data \in SentimentSamples :
        /\ call = TypeNone
        /\ call' = [op |-> "adjust_risk_by_sentiment",
                    args |-> [base_risk |-> base_risk, sentiment_data |-> sentiment_data],
                    ret |-> adjust_risk_by_sentiment(base_risk, sentiment_data)]
        /\ UNCHANGED <<config, gs, bt, tg>>

\* the call returns to its caller; nothing of it is kept
Return ==
    /\ call # TypeNone
    /\ call' = TypeNone
    /\ UNCHANGED <<config, gs, bt, tg>>

NextCalls ==
    \/ CallCombineSignals
    \/ CallPositionSize
    \/ CallDetectMarketRegime
    \/ CallTechnicalScore
    \/ CallRsi
    \/ CallGetItem
    \/ CallNextBatch
    \/ CallSafeLeverage
    \/ CallAdjustRisk
    \/ CallHeatMap
    \/ CallCorrelationRisk
    \/ CallRiskScore
    \/ CallRiskScoreCrowded
    \/ Return

SpecCalls == Init /\ [][NextCalls]_vars

(***************************************************************************)
(* SignalScorer.generate_signal, one stage at a time.  The predictor is an *)
(* external collaborator: its outputs are arbitrary.                       *)
(***************************************************************************)
SignalSymbols == {"BTC", "ETH"}
SignalPrices ==
    {Series(<<100, 100>>), Series(<<90, 100, 110>>), Series(<<110, 100, 90>>),
     Series(<<100, 90, 100>>)}
SignalVolumes == {Series(<<10, 10>>), Series(<<10, 10, 40>>), Series(<<40, 10, 10>>)}
Predictions ==
    [predicted_price : Ints({90, 110}),
     confidence : {Q(1, 2), Q(9, 10)},
     volatility : {Q(5, 100), Q(1, 10)}]

GenerateSignalCall ==
    \E symbol \in SignalSymbols, price_data \in SignalPrices,
       volume_data \in SignalVolumes :
        /\ gs.pc = "idle"
        /\ gs' = [pc |-> "predictor",
                  symbol |-> symbol,
                  price_data |-> price_data,
                  volume_data |-> volume_data,
                  stages |-> <<>>]
        /\ UNCHANGED <<config, call, bt, tg>>

\* stage 3 of generate_signal, given what calculate_risk_score gave
RiskStage(g, risk_assessment) ==
    IF ~Ok(risk_assessment)
    THEN [pc |-> "raised",
          symbol |-> g.symbol,
          error |-> risk_assessment.status,
          stages |-> Append(g.stages, "risk")]
    ELSE [pc |-> "combiner",
          symbol |-> g.symbol,
          price_data |-> g.price_data,
          prediction |-> g.prediction,
          technical_score |-> g.technical_score,
          risk_assessment |-> risk_assessment,
          stages |-> Append(g.stages, "risk")]

\* stage 4 of generate_signal and the returned dict, given what
\* _combine_signals gave
CombinerStage(g, signal) ==
    IF ~Ok(signal)
    THEN [pc |-> "raised",
          symbol |-> g.symbol,
          error |-> signal.status,
          stages |-> Append(g.stages, "combiner")]
    ELSE [pc |-> "returned",
          symbol |-> g.symbol,
          stages |-> Append(g.stages, "combiner"),
          result |->
              [symbol |-> g.symbol,
               signal |-> signal.action,
               confidence |-> signal.confidence,
               target_price |-> signal.target_price,
               stop_loss |-> signal.stop_loss,
               risk_reward |-> signal.risk_reward,
               position_size |-> signal.position_size,
               analysis |->
                   [transformer_confidence |-> g.prediction.confidence,
                    technical_score |-> g.technical_score,
                    risk_score |-> g.risk_assessment.score,
                    volatility |-> g.prediction.volatility]]]

\* the sentiment_data and portfolio_data generate_signal passes on
SignalSentimentData(technical_score) == [score |-> technical_score]
SignalPortfolioData == [positions |-> <<>>]

\* the stage of generate_signal that runs at gs.pc
GenerateSignalStage(cfg, g, prediction) ==
    CASE g.pc = "predictor" ->
            [pc |-> "technical",
             symbol |-> g.symbol,
             price_data |-> g.price_data,
             volume_data |-> g.volume_data,
             prediction |-> prediction,
             stages |-> Append(g.stages, "predictor")]
      [] g.pc = "technical" ->
            [pc |-> "risk",
             symbol |-> g.symbol,
             price_data |-> g.price_data,
             volume_data |-> g.volume_data,
             prediction |-> g.prediction,
             technical_score |-> calculate_technical_score(g.price_data, g.volume_data),
             stages |-> Append(g.stages, "technical")]
      [] g.pc = "risk" ->
            The({RiskStage(g, risk_assessment) :
                    risk_assessment \in
                        {calculate_risk_score(cfg,
                             [prices |-> g.price_data, volumes |-> g.volume_data],
                             SignalSentimentData(g.technical_score),
                             SignalPortfolioData)}})
      [] g.pc = "combiner" ->
            The({CombinerStage(g, signal) :
                    signal \in
                        {combine_signals(cfg, Last(g.price_data),
                                         g.prediction.predicted_price,
                                         g.prediction.confidence,
                                         g.prediction.volatility,
                                         g.technical_score,
                                         g.risk_assessment.score)}})

GenerateSignalStep ==
    \E prediction \in Predictions :
        /\ gs.pc \in {"predictor", "technical", "risk", "combiner"}
        /\ gs' = GenerateSignalStage(config, gs, prediction)
        /\ UNCHANGED <<config, call, bt, tg>>

\* the caller takes the result or the exception
GenerateSignalEnd ==
    /\ gs.pc \in {"returned", "raised"}
    /\ gs' = [pc |-> "idle"]
    /\ UNCHANGED <<config, call, bt, tg>>

NextSignal == GenerateSignalCall \/ GenerateSignalStep \/ GenerateSignalEnd

SpecSignal == Init /\ [][NextSignal]_vars

(***************************************************************************)
(* RiskManager.backtest_risk_strategy, one period at a time.               *)
(***************************************************************************)
MaxPeriods == 3

Dates == <<"2024-01-01", "2024-01-02", "2024-01-03", "2024-01-04", "2024-01-05">>

QuietMarket == [prices |-> Series(<<100, 100>>), volumes |-> Series(<<10, 10>>)]

Sentiment(n, so, t) ==
    [news_sentiment |-> [score |-> n],
     social_sentiment |-> [score |-> so],
     technical_sentiment |-> [score |-> t]]

\* risk inputs scoring 80, 75 and (with sentiment scores of -3.7) 0, and one
\* whose positions cancel
Risk80 ==
    [market |-> QuietMarket, sentiment |-> Sentiment(One, Zero, Zero),
     portfolio |-> [positions |-> <<>>, returns |-> <<>>]]
Risk75 ==
    [market |-> QuietMarket, sentiment |-> Sentiment(One, Zero, Zero),
     portfolio |-> [positions |-> <<Position(1, 70)>>, returns |-> <<>>]]
Risk0 ==
    [market |-> QuietMarket,
     sentiment |-> Sentiment(Q(-37, 10), Q(-37, 10), Q(-37, 10)),
     portfolio |-> [positions |-> <<>>, returns |-> <<>>]]
RiskFailing ==
    [market |-> QuietMarket, sentiment |-> Sentiment(One, Zero, Zero),
     portfolio |-> [positions |-> <<Position(1, 10), Position(2, -10)>>,
                    returns |-> <<>>]]

Period(price, next_price, risk) ==
    [price |-> Q(price, 1), next_price |-> Q(next_price, 1),
     market |-> risk.market, sentiment |-> risk.sentiment, portfolio |-> risk.portfolio]

PeriodSamples ==
    {Period(100, 150, Risk80), Period(100, 150, Risk75),
     Period(100, 50, Risk80), Period(100, 50, Risk75),
     Period(50, 100, Risk80), Period(100, 100, Risk75),
     Period(0, 50, Risk80), Period(100, 50, RiskFailing),
     Period(100, 150, Risk0)}

\* the historical_data dicts of at most MaxPeriods periods, in date order
Histories ==
    UNION {[1..n -> PeriodSamples] : n \in 0..MaxPeriods}

InitialCapitals == Ints({DefaultInitialCapital})

\* a call of backtest_risk_strategy with arguments of the given sets
BacktestOn(histories, initial_capitals) ==
    \E historical_data \in histories, initial_capital \in initial_capitals :
        /\ bt.pc = "idle"
        /\ bt' = [pc |-> "loop",
                  historical_data |-> historical_data,
                  initial_capital |-> initial_capital,
                  i |-> 1,
                  capital |-> initial_capital,
                  trades |-> <<>>,
                  risk_adjustments |-> <<>>]
        /\ UNCHANGED <<config, call, gs, tg>>

BacktestCall == BacktestOn(Histories, InitialCapitals)

\* one iteration of the loop over historical_data.items()
BacktestPeriod ==
    /\ bt.pc = "loop"
    /\ bt.i <= Len(bt.historical_data)
    /\ \E r \in {BacktestPeriodBody(config, bt.capital, Dates[bt.i],
                                     bt.historical_data[bt.i])} :
           bt' = IF ~Ok(r)
                 THEN [pc |-> "raised",
                       historical_data |-> bt.historical_data,
                       initial_capital |-> bt.initial_capital,
                       trades |-> bt.trades,
                       error |-> r.status]
                 ELSE [bt EXCEPT !.i = @ + 1,
                                 !.capital = r.capital,
                                 !.trades = Append(@, r.trade),
                                 !.risk_adjustments = Append(@, r.adjustment)]
    /\ UNCHANGED <<config, call, gs, tg>>

\* the loop is over: the metrics are computed and the results returned
BacktestMetrics ==
    /\ bt.pc = "loop"
    /\ bt.i > Len(bt.historical_data)
    /\ \E m \in {BacktestMetricsOf(bt.initial_capital, bt.capital, bt.trades)} :
           bt' = IF ~Ok(m)
                 THEN [pc |-> "raised",
                       historical_data |-> bt.historical_data,
                       initial_capital |-> bt.initial_capital,
                       trades |-> bt.trades,
                       error |-> m.status]
                 ELSE [pc |-> "returned",
                       historical_data |-> bt.historical_data,
                       initial_capital |-> bt.initial_capital,
                       trades |-> bt.trades,
                       risk_adjustments |-> bt.risk_adjustments,
                       metrics |-> m]
    /\ UNCHANGED <<config, call, gs, tg>>

BacktestEnd ==
    /\ bt.pc \in {"returned", "raised"}
    /\ bt' = [pc |-> "idle"]
    /\ UNCHANGED <<config, call, gs, tg>>

NextBacktest == BacktestCall \/ BacktestPeriod \/ BacktestMetrics \/ BacktestEnd

\* the backtest reads the RiskManager settings alone, which every
\* configuration of Configs shares: it is run on the default instance
InitDefault == Init /\ config = SignalScorerInit(Q(7, 10), Q(2, 1), DefaultRiskPerTrade)

SpecBacktest == InitDefault /\ [][NextBacktest]_vars

(***************************************************************************)
(* Backtests over losing periods: the price falls to 0 or by half, under   *)
(* risk scores of 100, 75 and 0, or doubles.                               *)
(***************************************************************************)
MaxLossPeriods == 3

\* risk inputs scoring 100: sentiment scores of 1.3
Risk100 ==
    [market |-> QuietMarket,
     sentiment |-> Sentiment(Q(13, 10), Q(13, 10), Q(13, 10)),
     portfolio |-> [positions |-> <<>>, returns |-> <<>>]]

LossPeriods ==
    {Period(100, 0, Risk100), Period(100, 0, Risk75), Period(100, 50, Risk100),
     Period(50, 100, Risk100), Period(100, 0, Risk0)}

LossHistories ==
    UNION {[1..n -> LossPeriods] : n \in 0..MaxLossPeriods}

LossBacktestCall == BacktestOn(LossHistories, InitialCapitals)

NextLoss == LossBacktestCall \/ BacktestPeriod \/ BacktestMetrics \/ BacktestEnd

SpecLoss == InitDefault /\ [][NextLoss]_vars

(***************************************************************************)
(* TelegramService: signals sent and buttons pressed while the clock runs. *)
(* The updates are handled one at a time; send_trade_signal is called from *)
(* the outside at any moment.                                              *)
(***************************************************************************)
MaxClock == 2
MaxSends == 2
MaxCallbacks == 2

TradeSignalFor(symbol, action) ==
    [symbol |-> symbol, signal |-> action,
     current_price |-> Q(100, 1), target_price |-> Q(110, 1), stop_loss |-> Q(95, 1),
     confidence |-> Q(8, 10), risk_reward |-> Q(2, 1), position_size |-> Q(4, 1)]

TradeSignals == {TradeSignalFor("BTC", "BUY"), TradeSignalFor("ETH", "SELL")}

\* the clock passes to the next second
Tick ==
    /\ tg.now < MaxClock
    /\ tg' = [tg EXCEPT !.now = @ + 1]
    /\ UNCHANGED <<config, call, gs, bt>>

\* a call of TelegramService.send_trade_signal
SendTradeSignal ==
    \E signal_data \in TradeSignals, delivered \in BOOLEAN :
        /\ Len(tg.sent) < MaxSends
        /\ tg' = send_trade_signal(tg, signal_data, delivered)
        /\ UNCHANGED <<config, call, gs, bt>>

\* the buttons that can be pressed: those of the messages that went out,
\* and those of a message of another time
Buttons ==
    UNION {{tg.sent[k].keyboard[1], tg.sent[k].keyboard[2]} :
              k \in {j \in 1..Len(tg.sent) : tg.sent[j].result}}
    \cup {CallbackData(a, ForeignOrderId) : a \in ButtonActions}

\* a button is pressed and the update reaches _button_callback
ButtonCallbackBegin ==
    \E data \in Buttons :
        /\ tg.callback = None
        /\ Len(tg.answers) < MaxCallbacks
        /\ tg' = button_callback_begin(tg, data)
        /\ UNCHANGED <<config, call, gs, bt>>

\* edit_message_text returns or raises, and _button_callback ends
ButtonCallbackEnd ==
    \E edited \in BOOLEAN :
        /\ tg.callback # None
        /\ tg' = button_callback_end(tg, edited)
        /\ UNCHANGED <<config, call, gs, bt>>

NextTelegram == Tick \/ SendTradeSignal \/ ButtonCallbackBegin \/ ButtonCallbackEnd

SpecTelegram == InitDefault /\ [][NextTelegram]_vars

(***************************************************************************)
(* Two calls on the same instance: a backtest, period by period, and any   *)
(* other operation in between.                                             *)
(***************************************************************************)
MaxConcurrentPeriods == 2

ConcurrentPeriods ==
    {Period(100, 150, Risk80), Period(100, 50, Risk75), Period(100, 150, Risk0)}

ConcurrentHistories ==
    UNION {[1..n -> ConcurrentPeriods] : n \in 0..MaxConcurrentPeriods}

ConcurrentBacktestCall == BacktestOn(ConcurrentHistories, InitialCapitals)

ConcurrentCombineSignals ==
    CombineSignalsOn(Ints({100}), Ints({90, 110}), {Q(1, 2), Q(9, 10)}, {Q(5, 100)},
                     {Q(8, 10)}, Ints({90}))

ConcurrentHeatMap == HeatMapOn(PortfolioSamples)

ConcurrentRiskScore ==
    RiskScoreOn(MarketSamples, {Sentiment(One, Zero, Zero), Sentiment(One, One, One)},
                {<<>>, <<Position(1, 70)>>},
                {<<>>, <<Asset(1, Series(<<1, 2, 3>>)), Asset(2, Series(<<3, 2, 1>>))>>})

NextConcurrent ==
    \/ ConcurrentBacktestCall
    \/ BacktestPeriod
    \/ BacktestMetrics
    \/ BacktestEnd
    \/ ConcurrentCombineSignals
    \/ ConcurrentHeatMap
    \/ ConcurrentRiskScore
    \/ CallCorrelationRisk
    \/ CallPositionSize
    \/ CallDetectMarketRegime
    \/ CallTechnicalScore
    \/ CallSafeLeverage
    \/ CallAdjustRisk
    \/ Return

SpecConcurrent == Init /\ [][NextConcurrent]_vars

(***************************************************************************)
(* Properties of SignalScorer._combine_signals                             *)
(***************************************************************************)
Combined == call.op = "_combine_signals"

WaitResult(r, confidence) ==
    /\ Ok(r)
    /\ r.action = "WAIT"
    /\ r.position_size = Zero
    /\ r.target_price = None
    /\ r.stop_loss = None
    /\ r.confidence = confidence

C2_ActionTable ==
    (Combined /\ Ok(call.ret)
              /\ ~RLt(call.args.confidence, config.confidence_threshold))
        => LET a == call.args
               priceChange == RDiv(RSub(a.predicted_price, a.price), a.price)
               finalScore == RAdd(RAdd(RMul(Q(3, 10), a.confidence),
                                       RMul(Q(3, 10), a.technical_score)),
                                  RMul(Q(4, 10), RDiv(a.risk_score, Q(100, 1))))
               buy == RLt(a.volatility, priceChange) /\ RLt(Q(7, 10), finalScore)
               sell == RLt(priceChange, RNeg(a.volatility)) /\ RLt(Q(7, 10), finalScore)
           IN  /\ call.ret.action \in {"BUY", "SELL", "WAIT"}
               /\ (call.ret.action = "BUY") <=> buy
               /\ (call.ret.action = "SELL") <=> sell
               /\ (call.ret.action = "WAIT") <=> (~buy /\ ~sell)
               /\ ~(buy /\ sell)

C2_Witness ==
    /\ Combined
    /\ ~RLt(call.args.confidence, config.confidence_threshold)
    /\ call.ret.status = "ok"
    /\ call.ret.action = "SELL"

\* C3: with confidence >= confidence_threshold, price > 0 and volatility > 0,
\* a rising prediction gives stopLoss = price*(1 - volatility) and
\* target = price + |price - stopLoss|*minRiskReward with
\* stopLoss < price < target; otherwise stopLoss = price*(1 + volatility) and
\* target = price - |price - stopLoss|*minRiskReward with
\* target < price < stopLoss; in both cases riskReward = minRiskReward.
C3_StopTargetRiskReward ==
    (Combined /\ ~RLt(call.args.confidence, config.confidence_threshold)
              /\ RLt(Zero, call.args.price) /\ RLt(Zero, call.args.volatility))
        => LET a == call.args
               r == call.ret
               priceChange == RDiv(RSub(a.predicted_price, a.price), a.price)
               mrr == config.min_risk_reward
           IN  /\ Ok(r)
               /\ IF RLt(Zero, priceChange)
                  THEN /\ r.stop_loss = RMul(a.price, RSub(One, a.volatility))
                       /\ r.target_price =
                              RAdd(a.price, RMul(RAbs(RSub(a.price, r.stop_loss)), mrr))
                       /\ RLt(r.stop_loss, a.price)
                       /\ RLt(a.price, r.target_price)
                  ELSE /\ r.stop_loss = RMul(a.price, RAdd(One, a.volatility))
                       /\ r.target_price =
                              RSub(a.price, RMul(RAbs(RSub(a.price, r.stop_loss)), mrr))
                       /\ RLt(r.target_price, a.price)
                       /\ RLt(a.price, r.stop_loss)
               /\ r.risk_reward = mrr
               /\ r.risk_reward =
                      RDiv(RAbs(RSub(r.target_price, a.price)),
                           RAbs(RSub(r.stop_loss, a.price)))

\* Scenario A: price 100, predicted 110, confidence 0.9, volatility 0.05,
\* technical score 0.8, risk score 90, minRiskReward 2
C3_Witness ==
    /\ Combined
    /\ config.min_risk_reward = Q(2, 1)
    /\ call.args = [price |-> Q(100, 1), predicted_price |-> Q(110, 1),
                    confidence |-> Q(9, 10), volatility |-> Q(5, 100),
                    technical_score |-> Q(8, 10), risk_score |-> Q(90, 1)]
    /\ call.ret.status = "ok"
    /\ call.ret.action = "BUY"
    /\ call.ret.stop_loss = Q(95, 1)
    /\ call.ret.target_price = Q(110, 1)
    /\ call.ret.risk_reward = Q(2, 1)

\* C17: whenever confidence >= confidence_threshold and volatility = 0 the
\* call fails with InvalidVolatility and returns no decision.
C17_ZeroVolatilityFails ==
    /\ Combined
    /\ ~RLt(call.args.confidence, config.confidence_threshold)
    /\ call.args.volatility = Zero
    => call.ret.status = "InvalidVolatility"

(***************************************************************************)
(* Properties of SignalScorer.generate_signal                              *)
(***************************************************************************)
\* C4: every call of generate_signal runs predictor, technical score, risk
\* score and combiner, in this order, and ends by returning the TradeSignal
\* of its symbol with the analysis sub-scores.
C4_GenerateSignalReturns ==
    gs.pc \in {"returned", "raised"}
        => /\ gs.pc = "returned"
           /\ gs.stages = <<"predictor", "technical", "risk", "combiner">>
           /\ gs.result.symbol = gs.symbol
           /\ DOMAIN gs.result.analysis =
                  {"transformer_confidence", "technical_score", "risk_score", "volatility"}

(***************************************************************************)
(* Properties of RiskManager.calculate_risk_score                          *)
(***************************************************************************)
Scored == call.op = "calculate_risk_score" /\ call.ret.status = "ok"

InUnit(x) == RLe(Zero, x) /\ RLe(x, One)

SentimentsInUnit(sd) ==
    /\ InUnit(sd.news_sentiment.score)
    /\ InUnit(sd.social_sentiment.score)
    /\ InUnit(sd.technical_sentiment.score)

\* C5: the score is 0.3*marketRegime + 0.2*sentiment + 0.25*concentration
\* + 0.25*correlation, and lies in [0,100] whenever the three sentiment
\* scores lie in [0,1].
C5_ScoreWeightedAndBounded ==
    Scored =>
        LET c == call.ret.components
        IN  /\ call.ret.score =
                   RAdd(RAdd(RMul(Q(30, 100), c.market_regime),
                             RMul(Q(20, 100), c.sentiment)),
                        RAdd(RMul(Q(25, 100), c.concentration),
                             RMul(Q(25, 100), c.correlation)))
            /\ SentimentsInUnit(call.args.sentiment_data)
                   => (RLe(Zero, call.ret.score) /\ RLe(call.ret.score, Q(100, 1)))

\* regime normal, every sentiment 1, no position, no asset: 24 + 20 + 25 + 25
C5_Witness ==
    /\ Scored
    /\ SentimentsInUnit(call.args.sentiment_data)
    /\ call.ret.components.sentiment = Q(100, 1)
    /\ call.ret.score = Q(94, 1)

\* C6: the level is decided by the score alone: high exactly when
\* score < 40, medium exactly when 40 <= score < 70, low exactly when
\* score >= 70.
C6_LevelFromScore ==
    Scored =>
        LET sc == call.ret.score
        IN  /\ (call.ret.level = "high") <=> RLt(sc, Q(40, 1))
            /\ (call.ret.level = "medium") <=> (RLe(Q(40, 1), sc) /\ RLt(sc, Q(70, 1)))
            /\ (call.ret.level = "low") <=> RLe(Q(70, 1), sc)

\* a score of exactly 70 is low risk
C6_Witness ==
    /\ Scored
    /\ call.ret.score = Q(70, 1)
    /\ call.ret.level = "low"

(***************************************************************************)
(* Properties of RiskManager.generate_portfolio_heat_map                   *)
(***************************************************************************)
HeatMapped == call.op = "generate_portfolio_heat_map"

TotalExposure(positions) == RSum([i \in 1..Len(positions) |-> positions[i].value])

Range(s) == {s[i] : i \in 1..Len(s)}

\* C7: with totalExposure > 0 every input symbol is in exactly one bucket,
\* once, no other symbol is in any bucket, and the bucket is the one of
\* ratio = value/totalExposure: > 0.2 high_risk, (0.1, 0.2] medium_risk,
\* <= 0.1 low_risk.
C7_HeatMapPartition ==
    (HeatMapped /\ RLt(Zero, TotalExposure(call.args.positions))) =>
        LET ps == call.args.positions
            total == TotalExposure(ps)
            m == call.ret.risk_map
            all == m.high_risk \o m.medium_risk \o m.low_risk
        IN  /\ Ok(call.ret)
            /\ Len(all) = Len(ps)
            /\ Range(all) = {ps[i].symbol : i \in 1..Len(ps)}
            /\ \A i \in 1..Len(ps) :
                   LET ratio == RDiv(ps[i].value, total)
                       sym == ps[i].symbol
                   IN  /\ (sym \in Range(m.high_risk)) <=> RLt(Q(2, 10), ratio)
                       /\ (sym \in Range(m.medium_risk))
                              <=> (RLt(Q(1, 10), ratio) /\ RLe(ratio, Q(2, 10)))
                       /\ (sym \in Range(m.low_risk)) <=> RLe(ratio, Q(1, 10))

\* 70 / 20 / 10 of a total of 100: one symbol in each bucket
C7_Witness ==
    /\ HeatMapped
    /\ Len(call.args.positions) = 3
    /\ TotalExposure(call.args.positions) = Q(100, 1)
    /\ call.ret.status = "ok"
    /\ Len(call.ret.risk_map.high_risk) = 1
    /\ Len(call.ret.risk_map.medium_risk) = 1
    /\ Len(call.ret.risk_map.low_risk) = 1

\* C8: with totalExposure = 0, the empty positions map included, the call
\* fails and returns no heat map.
C8_ZeroExposureFails ==
    (HeatMapped /\ TotalExposure(call.args.positions) = Zero) => ~Ok(call.ret)

(***************************************************************************)
(* Properties of calculate_position_size and of the series arguments       *)
(***************************************************************************)
\* C18: calculate_position_size fails with InvalidStopLoss, returning no
\* size, whenever entry_price = stop_loss_price.
C18_ZeroPriceRiskFails ==
    /\ call.op = "calculate_position_size"
    /\ call.args.entry_price = call.args.stop_loss_price
    => call.ret.status = "InvalidStopLoss"

\* the market series of a call that takes a price and a volume series
SeriesOf(c) ==
    IF c.op = "calculate_risk_score" THEN c.args.market_data ELSE c.args

\* C19: calculate_risk_score, detect_market_regime and the technical score,
\* given a price series and a volume series of different lengths, fail with
\* InvalidInput.
C19_MismatchedSeriesRejected ==
    /\ call.op \in {"calculate_risk_score", "detect_market_regime",
                    "_calculate_technical_score"}
    /\ Len(SeriesOf(call).prices) # Len(SeriesOf(call).volumes)
    => call.ret.status = "InvalidInput"

(***************************************************************************)
(* Properties of RiskManager.calculate_correlation_risk                    *)
(***************************************************************************)
Correlated == call.op = "calculate_correlation_risk"

\* the index pairs i < j of the assets of the call
AssetPairs == {p \in (1..Len(call.args.asset_returns)) \X (1..Len(call.args.asset_returns)) : p[1] < p[2]}

\* the pair's |correlation| is strictly greater than the threshold
Flagged(p) ==
    AbsCorrAbove(Corrcoef(call.args.asset_returns[p[1]].returns,
                          call.args.asset_returns[p[2]].returns).corr,
                 config.max_correlation)

NameOf(i) == call.args.asset_returns[i].asset

\* C15: one correlation entry for every unique unordered pair of assets (n
\* assets give n*(n-1)/2 entries), high_correlation_pairs holds exactly the
\* pairs whose |correlation| is strictly greater than the threshold, and
\* the threshold used is returned.
C15_OneEntryPerPair ==
    Correlated /\ Ok(call.ret) =>
        LET n == Len(call.args.asset_returns)
            high == call.ret.high_correlation_pairs
        IN  /\ Cardinality(DOMAIN call.ret.correlations) = (n * (n - 1)) \div 2
            /\ {<<high[k][1], high[k][2]>> : k \in 1..Len(high)} =
                   {<<NameOf(p[1]), NameOf(p[2])>> : p \in {q \in AssetPairs : Flagged(q)}}
            /\ Len(high) = Cardinality({q \in AssetPairs : Flagged(q)})
            /\ call.ret.max_correlation = config.max_correlation

\* C16: the call fails with InsufficientData, returning no correlation map,
\* whenever a pair of assets has fewer than 2 return samples.
C16_FewSamplesFail ==
    /\ Correlated
    /\ \E p \in AssetPairs : Len(call.args.asset_returns[p[1]].returns) < 2
                             /\ Len(call.args.asset_returns[p[2]].returns) < 2
    => call.ret.status = "InsufficientData"

(***************************************************************************)
(* Properties of RiskManager.backtest_risk_strategy                        *)
(***************************************************************************)
CapitalBefore(k) == IF k = 1 THEN bt.initial_capital ELSE bt.trades[k - 1].capital

\* C9: the periods are processed in input order, one TradeRecord each; for
\* period k nominalSize = capital_{k-1}*riskPerTrade/(0.05*price_k),
\* adjustedSize = nominalSize*(riskScore_k/100) and
\* capital_k = capital_{k-1} + adjustedSize*(nextPrice_k - price_k), with
\* capital_0 = initial_capital; final_capital is the last record's capital.
C9_TradesFollowPeriods ==
    bt.pc \in {"loop", "returned"} =>
        LET hd == bt.historical_data
            n == Len(bt.trades)
        IN  /\ bt.pc = "loop" => n = bt.i - 1 /\ n <= Len(hd)
            /\ bt.pc = "returned" =>
                   /\ n = Len(hd)
                   /\ n > 0
                   /\ bt.metrics.final_capital = bt.trades[n].capital
            /\ \A k \in 1..n :
                   LET t == bt.trades[k]
                       nominalSize ==
                           RDiv(RMul(CapitalBefore(k), config.risk_per_trade),
                                RMul(Q(5, 100), hd[k].price))
                       adjustedSize == RMul(nominalSize, RDiv(t.risk_score.score, Q(100, 1)))
                   IN  /\ t.date = Dates[k]
                       /\ t.risk_score =
                              calculate_risk_score(config, hd[k].market, hd[k].sentiment,
                                                   hd[k].portfolio)
                       /\ t.position_size = adjustedSize
                       /\ t.capital =
                              RAdd(CapitalBefore(k),
                                   RMul(adjustedSize, RSub(hd[k].next_price, hd[k].price)))

\* a three-period run that gains, loses and gains again
C9_Witness ==
    /\ bt.pc = "returned"
    /\ Len(bt.trades) = 3
    /\ RLt(bt.initial_capital, bt.trades[1].capital)
    /\ RLt(bt.trades[2].capital, bt.trades[1].capital)
    /\ RLt(bt.trades[2].capital, bt.trades[3].capital)
    /\ bt.metrics.final_capital = bt.trades[3].capital

\* the largest element of a non-empty set of rationals
RMaxOf(S) == CHOOSE m \in S : \A x \in S : RLe(x, m)

\* the largest (peak - capital)/peak over a capital curve, peak being the
\* largest capital up to and including the point
CurveDrawdown(curve) ==
    RMaxOf({RDiv(RSub(RMaxOf({curve[j] : j \in 1..i}), curve[i]),
                 RMaxOf({curve[j] : j \in 1..i})) : i \in 1..Len(curve)})

\* C10: max_drawdown is 100 times the largest drawdown over the capital
\* curve that starts at initial_capital and continues with the capital
\* after each period.
C10_DrawdownFromInitialCapital ==
    bt.pc = "returned" =>
        bt.metrics.max_drawdown =
            RMul(Q(100, 1), CurveDrawdown(<<bt.initial_capital>> \o CapitalsOf(bt.trades)))

Returned == bt.pc = "returned"

\* C11: risk_adjusted_return equals the reported total_return (the run's
\* return relative to initial_capital) divided by max_drawdown/100 whenever
\* max_drawdown is not 0, and is 0 whenever max_drawdown is 0.
C11_RiskAdjustedFromReportedReturn ==
    Returned =>
        IF bt.metrics.max_drawdown = Zero
        THEN bt.metrics.risk_adjusted_return = Zero
        ELSE bt.metrics.risk_adjusted_return =
                 RDiv(bt.metrics.total_return,
                      RDiv(bt.metrics.max_drawdown, Q(100, 1)))

\* the relative changes between consecutive TradeRecord capitals
PeriodReturns(trades) ==
    [i \in 1..(Len(trades) - 1) |->
        RDiv(RSub(trades[i + 1].capital, trades[i].capital), trades[i].capital)]

\* fewer than 2 period returns, or period returns of standard deviation 0
DegenerateReturns(trades) ==
    /\ \A i \in 1..Len(trades) : trades[i].capital # Zero
    /\ \/ Len(trades) - 1 < 2
       \/ Variance(PeriodReturns(trades)) = Zero

\* the loop over the periods has ended and left at least one trade
LoopDone ==
    /\ bt.pc \in {"returned", "raised"}
    /\ Len(bt.trades) = Len(bt.historical_data)
    /\ Len(bt.trades) > 0

\* C12: the reported sharpe_ratio is exactly 0 whenever the run has fewer
\* than 2 period returns or the standard deviation of its period returns is
\* 0, and no such run fails.
C12_SharpeZeroWhenDegenerate ==
    LoopDone /\ DegenerateReturns(bt.trades) =>
        /\ Returned
        /\ bt.metrics.sharpe_ratio = Zero

\* three periods with the same non-zero relative gain
C12_Witness ==
    /\ Returned
    /\ Len(bt.trades) = 3
    /\ Variance(PeriodReturns(bt.trades)) = Zero
    /\ RLt(Zero, PeriodReturns(bt.trades)[1])
    /\ bt.metrics.sharpe_ratio = Zero

\* every period of the run so far had a risk score of 0
AllScoresZero ==
    /\ bt.pc \in {"loop", "returned"}
    /\ Len(bt.trades) > 0
    /\ \A k \in 1..Len(bt.trades) : bt.trades[k].risk_score.score = Zero

\* C13: in a run whose risk score is 0 in every period, adjustedSize is 0
\* in every period, every TradeRecord's capital equals initial_capital, and
\* the metrics are final_capital = initial_capital, max_drawdown = 0,
\* sharpe_ratio = 0 and risk_adjusted_return = 0.
C13_ZeroScoreKeepsCapitalFlat ==
    AllScoresZero =>
        /\ \A k \in 1..Len(bt.trades) :
               /\ bt.trades[k].position_size = Zero
               /\ bt.risk_adjustments[k].adjusted_size = Zero
               /\ bt.trades[k].capital = bt.initial_capital
        /\ Returned =>
               /\ bt.metrics.final_capital = bt.initial_capital
               /\ bt.metrics.max_drawdown = Zero
               /\ bt.metrics.sharpe_ratio = Zero
               /\ bt.metrics.risk_adjusted_return = Zero

\* Scenario B: two periods with moving prices, capital flat at 10000
C13_Witness ==
    /\ AllScoresZero
    /\ Returned
    /\ Len(bt.trades) = 2
    /\ bt.initial_capital = Q(10000, 1)
    /\ \A k \in 1..2 : bt.historical_data[k].next_price # bt.historical_data[k].price
    /\ bt.metrics.final_capital = Q(10000, 1)

\* C14: a call with an empty historical_data fails with EmptyHistory and
\* returns no trades and no metrics.
C14_EmptyHistoryFails ==
    bt.pc \in {"returned", "raised"} /\ bt.historical_data = <<>> =>
        /\ bt.pc = "raised"
        /\ bt.error = "EmptyHistory"

(***************************************************************************)
(* Properties of the configuration                                         *)
(***************************************************************************)
\* the whole backtest computed in one piece from the instance's configuration
RECURSIVE RunAloneFrom(_, _, _, _, _, _)
RunAloneFrom(cfg, historical_data, initial_capital, i, capital, trades) ==
    IF i > Len(historical_data)
    THEN The({IF Ok(m) THEN [status |-> "ok", trades |-> trades, metrics |-> m] ELSE m :
                 m \in {BacktestMetricsOf(initial_capital, capital, trades)}})
    ELSE The({IF Ok(r)
              THEN RunAloneFrom(cfg, historical_data, initial_capital, i + 1, r.capital,
                                Append(trades, r.trade))
              ELSE r :
                 r \in {BacktestPeriodBody(cfg, capital, Dates[i], historical_data[i])}})

RunAlone == RunAloneFrom(config, bt.historical_data, bt.initial_capital, 1,
                         bt.initial_capital, <<>>)

\* a backtest that ended, whatever was called in between, ended as it would
\* have alone
SameAsAlone ==
    /\ bt.pc = "returned" =>
           /\ RunAlone.status = "ok"
           /\ bt.trades = RunAlone.trades
           /\ bt.metrics = RunAlone.metrics
    /\ bt.pc = "raised" => RunAlone.status = bt.error

\* C20: no operation changes risk_per_trade, max_portfolio_risk,
\* max_correlation, confidence_threshold or min_risk_reward, and a call
\* interleaved with another call on the same instance returns what it
\* returns alone.
C20_ConfigurationImmutable ==
    /\ [][config' = config]_vars
    /\ []SameAsAlone

\* a backtest between its two periods while another call has been made and
\* has not yet returned
C20_Witness ==
    /\ bt.pc = "loop"
    /\ Len(bt.historical_data) = 2
    /\ bt.i = 2
    /\ call.op = "adjust_risk_by_sentiment"
    /\ Ok(call.ret)

\* the deltas the RSI of a returned _calculate_rsi call is averaged over
RsiCalled == call # TypeNone /\ call.op = "_calculate_rsi" /\ Len(call.args.prices) >= 2

RsiWindow == LastN(Diff(call.args.prices), call.args.period)

NoLossInWindow == \A i \in 1..Len(RsiWindow) : RLe(Zero, RsiWindow[i])

SomeGainInWindow == \E i \in 1..Len(RsiWindow) : RLt(Zero, RsiWindow[i])

\* C21: as stated -- the RSI of a series with at least one delta lies in
\* [0, 100] and is 100 exactly when no delta of the window is negative and at
\* least one is positive, so a window of all-zero deltas does not give 100.
C21_RsiHundredNeedsGain ==
    RsiCalled =>
        /\ RLe(Zero, call.ret.value) /\ RLe(call.ret.value, Q(100, 1))
        /\ (call.ret.value = Q(100, 1)) <=> (NoLossInWindow /\ SomeGainInWindow)

\* C21: as the code has it -- the RSI of a series with at least one delta
\* lies in [0, 100] and is 100 exactly when no delta of the window is
\* negative, a window of all-zero deltas included.
C21_RsiHundredIffNoLoss ==
    RsiCalled =>
        /\ RLe(Zero, call.ret.value) /\ RLe(call.ret.value, Q(100, 1))
        /\ (call.ret.value = Q(100, 1)) <=> NoLossInWindow

\* a flat window behind a longer series that did lose: the RSI is 100
C21_Witness ==
    /\ RsiCalled
    /\ Len(Diff(call.args.prices)) > call.args.period
    /\ NoLossInWindow /\ ~SomeGainInWindow
    /\ \E i \in 1..Len(Diff(call.args.prices)) : RLt(Diff(call.args.prices)[i], Zero)
    /\ call.ret.value = Q(100, 1)

TechnicalScored == call # TypeNone /\ call.op = "_calculate_technical_score"

\* the three component scores as the tables give them
TableRsiScore(rsi) ==
    IF rsi # FloatNaN /\ RLt(rsi, Q(30, 1)) THEN One
    ELSE IF rsi # FloatNaN /\ RLt(Q(70, 1), rsi) THEN Zero
    ELSE Q(1, 2)

TableVolumeScore(volumes) ==
    IF RLt(RMul(Q(3, 2), Mean(LastN(volumes, Sma20Window))), Last(volumes))
    THEN One ELSE Q(1, 2)

TableTrendScore(prices) ==
    LET sma20 == Mean(LastN(prices, Sma20Window))
        sma50 == Mean(LastN(prices, Sma50Window))
    IN  IF RLt(sma20, Last(prices)) /\ RLt(sma50, sma20) THEN One
        ELSE IF RLt(Last(prices), sma20) /\ RLt(sma20, sma50) THEN Zero
        ELSE Q(1, 2)

\* C22: the technical score is 0.3 rsiScore + 0.3 volumeScore + 0.4 trendScore
\* with the component scores of the tables, and lies in [0, 1].
C22_TechnicalScoreWeighted ==
    TechnicalScored =>
        /\ call.ret.value =
               RAdd(RAdd(RMul(Q(3, 10), TableRsiScore(calculate_rsi(call.args.prices, RsiPeriod))),
                         RMul(Q(3, 10), TableVolumeScore(call.args.volumes))),
                    RMul(Q(4, 10), TableTrendScore(call.args.prices)))
        /\ RLe(Zero, call.ret.value) /\ RLe(call.ret.value, One)

\* an oversold falling series with a volume burst: 0.3 + 0.3 + 0
C22_Witness ==
    /\ TechnicalScored
    /\ RLt(calculate_rsi(call.args.prices, RsiPeriod), Q(30, 1))
    /\ TableVolumeScore(call.args.volumes) = One
    /\ TableTrendScore(call.args.prices) = Zero
    /\ call.ret.value = Q(6, 10)

LeverageCalled ==
    /\ call # TypeNone /\ call.op = "calculate_safe_leverage"
    /\ RLt(Zero, call.args.volatility) /\ RLt(Zero, call.args.account_balance)

\* C23: for volatility > 0 and account_balance > 0 the call returns
\* max_safe_leverage = min(3, 1 / volatility), current_leverage =
\* position_value / account_balance, and is_safe exactly when the current
\* leverage is at most the safe one, equality counted safe.
C23_SafeLeverage ==
    LeverageCalled =>
        /\ Ok(call.ret)
        /\ call.ret.max_safe_leverage =
               (IF RLt(RInv(call.args.volatility), Q(3, 1))
                THEN RInv(call.args.volatility) ELSE Q(3, 1))
        /\ RMul(call.ret.current_leverage, call.args.account_balance)
               = call.args.position_value
        /\ call.ret.is_safe
               <=> ~RLt(call.ret.max_safe_leverage, call.ret.current_leverage)

\* leverage 2 against a safe leverage of 1 / 0.5 = 2: safe
C23_Witness ==
    /\ LeverageCalled
    /\ call.ret.current_leverage = call.ret.max_safe_leverage
    /\ call.ret.max_safe_leverage = Q(2, 1)
    /\ call.ret.is_safe

RegimeDetected ==
    call # TypeNone /\ call.op = "detect_market_regime" /\ Ok(call.ret)

\* C25: the high-volatility condition never holds, so detect_market_regime
\* returns high_volume (multiplier 0.8) exactly when the last volume exceeds
\* 1.5 times the mean volume and normal (1.0) otherwise, never high_risk or
\* volatile; the market_regime component of a risk score is 60 or 80.
C25_RegimeNeverVolatile ==
    /\ RegimeDetected =>
          /\ call.ret.regime \notin {"high_risk", "volatile"}
          /\ IF RLt(RMul(Q(3, 2), Mean(call.args.volumes)), Last(call.args.volumes))
             THEN call.ret.regime = "high_volume" /\ call.ret.risk_multiplier = Q(8, 10)
             ELSE call.ret.regime = "normal" /\ call.ret.risk_multiplier = One
    /\ Scored => call.ret.components.market_regime \in {Q(60, 1), Q(80, 1)}

\* prices that do vary, with a volume burst: high_volume, not high_risk
C25_Witness ==
    /\ RegimeDetected
    /\ RLt(Zero, call.ret.variance)
    /\ call.ret.regime = "high_volume"

\* the symbols of the scored portfolio above 20% of its total exposure
HighRiskSymbols ==
    LET ps == call.args.portfolio_data.positions
    IN  {i \in 1..Len(ps) : RLt(Q(2, 10), RDiv(ps[i].value, TotalExposure(ps)))}

\* the pairs of the scored portfolio's assets correlated above the threshold
FlaggedPairs ==
    LET rs == call.args.portfolio_data.returns
    IN  {p \in (1..Len(rs)) \X (1..Len(rs)) :
            /\ p[1] < p[2]
            /\ AbsCorrAbove(Corrcoef(rs[p[1]].returns, rs[p[2]].returns).corr,
                            config.max_correlation)}

ClampedAtZero(n) == IF n < 0 THEN Zero ELSE Q(n, 1)

\* C26: the concentration component is max(0, 100 - 20 * high-risk symbols)
\* and the correlation component max(0, 100 - 15 * flagged pairs): 0 from
\* 6 symbols and from 7 pairs on, never negative, 100 when there is none.
C26_ComponentsClamped ==
    Scored =>
        /\ call.ret.components.concentration
               = ClampedAtZero(100 - 20 * Cardinality(HighRiskSymbols))
        /\ call.ret.components.correlation
               = ClampedAtZero(100 - 15 * Cardinality(FlaggedPairs))
        /\ RLe(Zero, call.ret.components.concentration)
        /\ RLe(Zero, call.ret.components.correlation)

\* six symbols at 30% each and ten flagged pairs: both components 0
C26_Witness ==
    /\ Scored
    /\ Cardinality(HighRiskSymbols) = 6
    /\ Cardinality(FlaggedPairs) = 10
    /\ call.ret.components.concentration = Zero
    /\ call.ret.components.correlation = Zero

\* the run's inputs are the ones the claim is about: a positive initial
\* capital, positive prices, next prices that are not negative, scores
\* within [0, 100] and 2% risked per trade
PositiveRun ==
    /\ bt.pc \in {"loop", "returned", "raised"}
    /\ Len(bt.historical_data) > 0
    /\ RLt(Zero, bt.initial_capital)
    /\ \A k \in 1..Len(bt.historical_data) :
           /\ RLt(Zero, bt.historical_data[k].price)
           /\ RLe(Zero, bt.historical_data[k].next_price)
    /\ \A k \in 1..Len(bt.trades) :
           /\ RLe(Zero, bt.trades[k].risk_score.score)
           /\ RLe(bt.trades[k].risk_score.score, Q(100, 1))
    /\ config.risk_per_trade = Q(2, 100)

\* C27: in such a run the capital stays strictly positive, a period takes
\* at most 40% of the capital it started with, and no division of the
\* drawdown or of the period returns is by zero: the run does not fail.
C27_CapitalStaysPositive ==
    PositiveRun =>
        /\ \A k \in 1..Len(bt.trades) :
               /\ RLt(Zero, bt.trades[k].capital)
               /\ RLe(RMul(Q(60, 100), CapitalBefore(k)), bt.trades[k].capital)
        /\ bt.pc # "raised"

\* three periods at score 100 with the price falling to 0: 10000, 6000,
\* 3600, 2160, and the metrics are returned
C27_Witness ==
    /\ PositiveRun
    /\ Returned
    /\ Len(bt.trades) = 3
    /\ \A k \in 1..3 : bt.trades[k].capital = RMul(Q(60, 100), CapitalBefore(k))
    /\ bt.metrics.final_capital = Q(2160, 1)

\* a __getitem__ call at an index below len(dataset)
ItemRead ==
    /\ call # TypeNone /\ call.op = "__getitem__"
    /\ call.args.idx < call.args.rows - call.args.sequence_length
                           - call.args.prediction_horizon

BatchRead == call # TypeNone /\ call.op = "next_batch"

\* the frame rows behind the x and the y of the call, in order
RowsOfX == [k \in 1..Len(call.ret.x) |-> call.ret.x[k].price.row]

RowsOfY == [k \in 1..Len(call.ret.y) |-> call.ret.y[k].row]

\* C24: for 0 <= idx < len(dataset) x is the L rows from idx on, y the
\* price column of the H rows after them, no row is in both and every row
\* is a row of the data; the batches of the loaders hold inputs of length
\* L and targets of length H.
C24_WindowsInsideData ==
    /\ ItemRead =>
          /\ Len(call.ret.x) = call.args.sequence_length
          /\ Len(call.ret.y) = call.args.prediction_horizon
          /\ \A k \in 1..Len(call.ret.x) :
                 /\ RowsOfX[k] = call.args.idx + k
                 /\ call.ret.x[k] = PreparedRow(call.args.idx + k)
          /\ \A k \in 1..Len(call.ret.y) :
                 /\ RowsOfY[k] = call.args.idx + call.args.sequence_length + k
                 /\ call.ret.y[k].scaled = "close"
          /\ Range(RowsOfX) \cap Range(RowsOfY) = {}
          /\ Range(RowsOfX) \cup Range(RowsOfY) \subseteq 1..call.args.rows
    /\ BatchRead =>
          \A k \in 1..Len(call.args.indices) :
              /\ Len(call.ret.x[k]) = call.args.sequence_length
              /\ Len(call.ret.y[k]) = call.args.prediction_horizon

\* the last index of a dataset with windows of 2 and 2 rows
C24_Witness ==
    /\ ItemRead
    /\ call.args.sequence_length = 2 /\ call.args.prediction_horizon = 2
    /\ call.args.idx = call.args.rows - 5
    /\ call.args.idx > 0
    /\ Len(call.ret.x) = 2 /\ Len(call.ret.y) = 2

\* the step ends a callback: an answer is added to those given
CallbackAnswered == Len(tg'.answers) = Len(tg.answers) + 1

TheAnswer == tg'.answers[Len(tg'.answers)]

\* an earlier callback found the order id pending
HandledBefore(order_id) ==
    \E k \in 1..Len(tg.answers) :
        tg.answers[k].order_id = order_id /\ tg.answers[k].reply # ExpiredAnswer

NeverStored(order_id) == \A k \in 1..Len(tg.sent) : tg.sent[k].order_id # order_id

\* C28: a pending order is resolved at most once -- after a callback for an
\* order id the id is not in pending_orders; a later callback with the same
\* id changes nothing and is answered as expired or already processed; a
\* callback for an id never stored leaves pending_orders unchanged.
C28_ResolvedAtMostOnce ==
    [][CallbackAnswered =>
          /\ TheAnswer.order_id \notin DOMAIN tg'.pending_orders
          /\ HandledBefore(TheAnswer.order_id) =>
                 /\ TheAnswer.reply = ExpiredAnswer
                 /\ tg'.pending_orders = tg.pending_orders
          /\ NeverStored(TheAnswer.order_id) =>
                 /\ TheAnswer.reply = ExpiredAnswer
                 /\ tg'.pending_orders = tg.pending_orders]_vars

\* the step is a call of send_trade_signal
SignalSent == Len(tg'.sent) = Len(tg.sent) + 1

\* C29: a signal sent is stored under an order id of its own -- the call
\* adds one entry to pending_orders and neither overwrites nor removes the
\* entry of a signal that is still pending.
C29_OrderIdOfItsOwn ==
    [][SignalSent =>
          /\ DOMAIN tg'.pending_orders
                 = DOMAIN tg.pending_orders \cup {tg'.sent[Len(tg'.sent)].order_id}
          /\ tg'.sent[Len(tg'.sent)].order_id \notin DOMAIN tg.pending_orders
          /\ \A order_id \in DOMAIN tg.pending_orders :
                 tg'.pending_orders[order_id] = tg.pending_orders[order_id]]_vars

====
